---- MODULE Spec2Model ----
(***************************************************************************)
(* A model of lib/spack/spack/stage.py: the Stage life cycle and its       *)
(* per-name write lock, the fetch fallback loop, the checksum check, and   *)
(* the external build directory allocator of CMakeBuildStage.              *)
(*                                                                         *)
(* Three specifications share the module, one per part of the file:        *)
(*   Spec       processes constructing Stage objects and using them as     *)
(*              scoped resources (__init__, __enter__, __exit__, create,   *)
(*              destroy) on a shared stage root;                           *)
(*   SpecFetch  one Stage running fetch() and check();                     *)
(*   SpecCMake  processes allocating external build directories.           *)
(* Each specification leaves the variables of the other parts unchanged.   *)
(***************************************************************************)
EXTENDS Integers, Sequences, FiniteSets, TLC

VARIABLES
    stage_locks,  \* per process: Stage.stage_locks, name -> Lock id (0: no entry)
    lockObjs,     \* per process: the Lock objects made so far, [name, writes]
    fileLock,     \* per name: the process holding the byte range of .lock (0: free)
    stages,       \* the Stage objects made so far, each with the process owning it
    scopes,       \* per process: the stack of Stage objects whose scope it is inside
    fs,           \* per name: the entry at <stage_root>/<name>
    ev,           \* the last operation: what it was called with and how it ended
    fst,          \* the Stage that fetch() and check() run on
    cm,           \* per process: its position in CMakeBuildStage allocation
    extRoot,      \* the names under the external build root
    cev,          \* the last allocator operation
    ss,           \* the Stage that steal_source() runs on, and its destination
    rs,           \* a ResourceStage, its placement and the root stage's source tree
    cs,           \* a StageComposite and its members
    dy,           \* a DIYStage and the directory it wraps
    sr,           \* the stage root: the cache of get_stage_root(), the configuration and the candidates' paths
    lf            \* a base Stage through its calls, and the mirror cache_mirror() stores into

lockVars == <<stage_locks, lockObjs, fileLock, stages, scopes, fs, ev>>
cmakeVars == <<cm, extRoot, cev>>
vars == <<stage_locks, lockObjs, fileLock, stages, scopes, fs, ev, fst, cm, extRoot, cev, ss, rs, cs, dy, sr, lf>>

\* what the operations of one part of the model leave alone
outsideStage == <<fst, cm, extRoot, cev, ss, rs, cs, dy, sr, lf>>
outsideFetch == <<lockVars, cmakeVars, ss, rs, cs, dy, sr, lf>>
outsideCMake == <<lockVars, fst, ss, rs, cs, dy, sr, lf>>
outsideSteal == <<lockVars, fst, cmakeVars, rs, cs, dy, sr, lf>>
outsideResource == <<lockVars, fst, cmakeVars, ss, cs, dy, sr, lf>>
outsideComposite == <<lockVars, fst, cmakeVars, ss, rs, dy, sr, lf>>
outsideDIY == <<lockVars, fst, cmakeVars, ss, rs, cs, sr, lf>>
outsideRoot == <<lockVars, fst, cmakeVars, ss, rs, cs, dy, lf>>
outsideLife == <<lockVars, fst, cmakeVars, ss, rs, cs, dy, sr>>

\* the parts a specification does not use
NotUsed == [pc |-> "unused"]

(***************************************************************************)
(* Bounds of the model.                                                    *)
(***************************************************************************)
NProcs == 2
MaxStages == 2
MaxDepth == 2
MaxWrites == 2

Procs == 1..NProcs
StageNames == {"x", "y"}

(***************************************************************************)
(* The filesystem entry at a stage path.                                   *)
(***************************************************************************)
AbsentPath == [kind |-> "absent", acc |-> FALSE, content |-> {}]
FilePath == [kind |-> "file", acc |-> TRUE, content |-> {}]
NewDir == [kind |-> "dir", acc |-> TRUE, content |-> {}]
DirEntries == {"archive", "spack-src"}

\* can_access(path), as ensure_access() uses it
CanAccess(f) == f.kind = "dir" /\ f.acc

\* if not exists: mkdirp; elif not is_dir: unlink, mkdirp
MutMkStageDir(f) == NewDir
MkStageDir(f) ==
    IF f.kind = "absent" THEN NewDir
    ELSE IF f.kind # "dir" THEN NewDir
    ELSE f

\* ensure_access(self._path): tty.die unless accessible
CreateDies(f) == ~CanAccess(MkStageDir(f))

\* remove_linked_tree(self.path)
RemoveTree(f) == AbsentPath

(***************************************************************************)
(* Stage.__init__: the lock of a stage name.                               *)
(***************************************************************************)
\* if self.name not in Stage.stage_locks
MutNeedsNewLock(p, n) == TRUE
NeedsNewLock(p, n) == stage_locks[p][n] = 0

\* The record of the last operation. again: the operation before it was the
\* same call on the same Stage and returned.
NoEvent == [op |-> "none", p |-> 0, i |-> 0, res |-> "ok", exc |-> FALSE, again |-> FALSE]

Event(op, i, res, exc) ==
    [op |-> op, p |-> stages[i].p, i |-> i, res |-> res, exc |-> exc,
     again |-> (ev.op = op /\ ev.i = i /\ ev.res = "ok")]

StageInit(p, n, keep, lock) ==
    /\ Len(stages) < MaxStages
    /\ LET fresh == lock /\ NeedsNewLock(p, n)
           objs == IF fresh
                   THEN Append(lockObjs[p], [name |-> n, writes |-> 0])
                   ELSE lockObjs[p]
           locks == IF fresh
                    THEN [stage_locks[p] EXCEPT ![n] = Len(objs)]
                    ELSE stage_locks[p]
           st == [p |-> p, name |-> n, keep |-> keep, created |-> FALSE,
                  lock |-> IF lock THEN locks[n] ELSE 0]
       IN  /\ lockObjs' = [lockObjs EXCEPT ![p] = objs]
           /\ stage_locks' = [stage_locks EXCEPT ![p] = locks]
           /\ stages' = Append(stages, st)
           /\ ev' = [NoEvent EXCEPT !.op = "init", !.p = p, !.i = Len(stages) + 1]
    /\ UNCHANGED <<fileLock, scopes, fs>>

(***************************************************************************)
(* spack.util.lock.Lock: acquire_write(timeout) and release_write().       *)
(* A Lock object counts its nested write acquisitions; the byte range of   *)
(* the lock file is taken on the first and given back on the last.         *)
(***************************************************************************)
\* the byte range is free, or this Lock object already holds it
CanAcquire(p, l) ==
    \/ lockObjs[p][l].writes > 0
    \/ fileLock[lockObjs[p][l].name] \in {0, p}

AcquiredObjs(p, l) == [lockObjs[p] EXCEPT ![l].writes = @ + 1]

ReleasedObjs(p, l) == [lockObjs[p] EXCEPT ![l].writes = @ - 1]

ReleasedFile(p, l) ==
    IF lockObjs[p][l].writes = 1 /\ fileLock[lockObjs[p][l].name] = p
    THEN [fileLock EXCEPT ![lockObjs[p][l].name] = 0]
    ELSE fileLock

(***************************************************************************)
(* Stage.create and Stage.destroy.                                         *)
(***************************************************************************)
\* How destroy() can end: "ok"; "rm_fail", remove_linked_tree raised and the
\* tree is still there; "chdir_fail", the tree is gone and os.chdir raised.
\* Either failure leaves before `self.created = False`.
DestroyOutcomes(f) ==
    IF f.kind = "absent" THEN {"ok", "chdir_fail"} ELSE {"ok", "rm_fail", "chdir_fail"}

DestroyFs(f, dres) == IF dres = "rm_fail" THEN f ELSE RemoveTree(f)

DestroyCreated(c, dres) == IF dres = "ok" THEN FALSE ELSE c

StageCreate(i) ==
    /\ i \in 1..Len(stages)
    /\ LET s == stages[i]
           dies == CreateDies(fs[s.name])
       IN  /\ fs' = [fs EXCEPT ![s.name] = MkStageDir(@)]
           /\ stages' = [stages EXCEPT ![i].created = IF dies THEN @ ELSE TRUE]
           /\ ev' = Event("create", i, IF dies THEN "die" ELSE "ok", FALSE)
    /\ UNCHANGED <<stage_locks, lockObjs, fileLock, scopes>>

StageDestroy(i, dres) ==
    /\ i \in 1..Len(stages)
    /\ LET s == stages[i]
       IN  /\ dres \in DestroyOutcomes(fs[s.name])
           /\ fs' = [fs EXCEPT ![s.name] = DestroyFs(@, dres)]
           /\ stages' = [stages EXCEPT ![i].created = DestroyCreated(@, dres)]
           /\ ev' = Event("destroy", i, IF dres = "ok" THEN "ok" ELSE "DestroyError", FALSE)
    /\ UNCHANGED <<stage_locks, lockObjs, fileLock, scopes>>

(***************************************************************************)
(* Stage.__enter__ and Stage.__exit__.                                     *)
(***************************************************************************)
\* if self._lock is not None
MutUsesLock(s) == FALSE
UsesLock(s) == s.lock # 0

\* if exc_type is None and not self.keep
MutExitDestroys(exc, keep) == ~keep
ExitDestroys(exc, keep) == ~exc /\ ~keep

\* acquire_write(timeout=60) cannot get the byte range: LockTimeoutError
StageEnterTimeout(i) ==
    /\ i \in 1..Len(stages)
    /\ Len(scopes[stages[i].p]) < MaxDepth
    /\ UsesLock(stages[i])
    /\ ~CanAcquire(stages[i].p, stages[i].lock)
    /\ ev' = Event("enter", i, "LockTimeoutError", FALSE)
    /\ UNCHANGED <<stage_locks, lockObjs, fileLock, stages, scopes, fs>>

StageEnter(i) ==
    /\ i \in 1..Len(stages)
    /\ Len(scopes[stages[i].p]) < MaxDepth
    /\ LET s == stages[i]
           p == s.p
           dies == CreateDies(fs[s.name])
       IN  /\ UsesLock(s) => CanAcquire(p, s.lock) /\ lockObjs[p][s.lock].writes < MaxWrites
           /\ lockObjs' = IF UsesLock(s)
                          THEN [lockObjs EXCEPT ![p] = AcquiredObjs(p, s.lock)]
                          ELSE lockObjs
           /\ fileLock' = IF UsesLock(s) /\ lockObjs[p][s.lock].writes = 0
                          THEN [fileLock EXCEPT ![s.name] = p]
                          ELSE fileLock
           /\ fs' = [fs EXCEPT ![s.name] = MkStageDir(@)]
           /\ stages' = [stages EXCEPT ![i].created = IF dies THEN @ ELSE TRUE]
           /\ scopes' = IF dies THEN scopes ELSE [scopes EXCEPT ![p] = Append(@, i)]
           /\ ev' = Event("enter", i, IF dies THEN "die" ELSE "ok", FALSE)
    /\ UNCHANGED stage_locks

\* __exit__ of the innermost scope; exc: an exception propagated out of the body
StageExit(p, exc, dres) ==
    /\ scopes[p] # <<>>
    /\ LET i == scopes[p][Len(scopes[p])]
           s == stages[i]
           destroys == ExitDestroys(exc, s.keep)
           raised == destroys /\ dres # "ok"
           unlocks == UsesLock(s) /\ ~raised
       IN  /\ dres \in (IF destroys THEN DestroyOutcomes(fs[s.name]) ELSE {"ok"})
           /\ fs' = IF destroys THEN [fs EXCEPT ![s.name] = DestroyFs(@, dres)] ELSE fs
           /\ stages' = IF destroys
                        THEN [stages EXCEPT ![i].created = DestroyCreated(@, dres)]
                        ELSE stages
           /\ lockObjs' = IF unlocks
                          THEN [lockObjs EXCEPT ![p] = ReleasedObjs(p, s.lock)]
                          ELSE lockObjs
           /\ fileLock' = IF unlocks THEN ReleasedFile(p, s.lock) ELSE fileLock
           /\ scopes' = [scopes EXCEPT ![p] = SubSeq(@, 1, Len(@) - 1)]
           /\ ev' = Event("exit", i, IF raised THEN "DestroyError" ELSE "ok", exc)
    /\ UNCHANGED stage_locks

(***************************************************************************)
(* The specification of the scoped use of stages.                          *)
(***************************************************************************)
InaccessibleDir == [kind |-> "dir", acc |-> FALSE, content |-> {}]

FetchIdle == [pc |-> "idle"]

LockInit ==
    /\ stage_locks = [p \in Procs |-> [n \in StageNames |-> 0]]
    /\ lockObjs = [p \in Procs |-> <<>>]
    /\ fileLock = [n \in StageNames |-> 0]
    /\ stages = <<>>
    /\ scopes = [p \in Procs |-> <<>>]
    /\ ev = NoEvent

Init ==
    /\ LockInit
    /\ fs \in [StageNames -> {AbsentPath, InaccessibleDir}]
    /\ fst = FetchIdle
    /\ cm = [p \in Procs |-> [pc |-> "idle"]]
    /\ extRoot = {}
    /\ cev = [op |-> "none"]
    /\ ss = NotUsed /\ rs = NotUsed /\ cs = NotUsed /\ dy = NotUsed /\ sr = NotUsed /\ lf = NotUsed

Next ==
    \/ \E p \in Procs, n \in StageNames, keep \in BOOLEAN, lock \in BOOLEAN :
          StageInit(p, n, keep, lock) /\ UNCHANGED outsideStage
    \/ \E i \in 1..MaxStages :
          StageCreate(i) /\ UNCHANGED outsideStage
    \/ \E i \in 1..MaxStages, dres \in {"ok", "rm_fail", "chdir_fail"} :
          StageDestroy(i, dres) /\ UNCHANGED outsideStage
    \/ \E i \in 1..MaxStages :
          StageEnterTimeout(i) /\ UNCHANGED outsideStage
    \/ \E i \in 1..MaxStages :
          StageEnter(i) /\ UNCHANGED outsideStage
    \/ \E p \in Procs, exc \in BOOLEAN, dres \in {"ok", "rm_fail", "chdir_fail"} :
          StageExit(p, exc, dres) /\ UNCHANGED outsideStage

Spec == Init /\ [][Next]_vars

(***************************************************************************)
(* The specification of create() and destroy() alone: one process, and     *)
(* every kind of entry at the stage paths to start from.                   *)
(***************************************************************************)
AllPaths ==
    {AbsentPath, FilePath}
        \cup {[kind |-> "dir", acc |-> a, content |-> c] :
                 a \in BOOLEAN, c \in SUBSET DirEntries}

InitCreate ==
    /\ LockInit
    /\ fs \in [StageNames -> AllPaths]
    /\ fst = FetchIdle
    /\ cm = [p \in Procs |-> [pc |-> "idle"]]
    /\ extRoot = {}
    /\ cev = [op |-> "none"]
    /\ ss = NotUsed /\ rs = NotUsed /\ cs = NotUsed /\ dy = NotUsed /\ sr = NotUsed /\ lf = NotUsed

NextCreate ==
    \/ \E n \in StageNames, lock \in BOOLEAN :
          StageInit(1, n, FALSE, lock) /\ UNCHANGED outsideStage
    \/ \E i \in 1..MaxStages :
          StageCreate(i) /\ UNCHANGED outsideStage
    \/ \E i \in 1..MaxStages, dres \in {"ok", "rm_fail", "chdir_fail"} :
          StageDestroy(i, dres) /\ UNCHANGED outsideStage

SpecCreate == InitCreate /\ [][NextCreate]_vars

(***************************************************************************)
(* Stage.fetch and Stage.check, on one Stage.                              *)
(*                                                                         *)
(* A fetcher is a record: kind "default", "cache", "mirror" or "dynamic",  *)
(* the mirror and the mirror path it was built from (0: none), and whether *)
(* it carries a digest. fst.cfg is what the Stage was constructed with and *)
(* what the configuration holds.                                           *)
(***************************************************************************)
MaxMirrors == 2
MaxPaths == 2
MaxDyn == 1

NoneMsg == "<None>"
DefaultMsg == "All fetchers failed for <name>"
ErrMsgs == {NoneMsg, "", "custom message"}

DefaultFetcher(cfg) == [kind |-> "default", m |-> 0, path |-> 0, digest |-> cfg.digest]

\* spack.caches.fetch_cache.fetcher(rel_path, digest, ...)
CacheFetcher(cfg, j) == [kind |-> "cache", m |-> 0, path |-> j, digest |-> cfg.digest]

\* fs.from_url_scheme(url, digest, ...) for url = join(mirror.fetch_url, rel_path)
MirrorFetcher(cfg, m, j) == [kind |-> "mirror", m |-> m, path |-> j, digest |-> cfg.digest]

\* the k-th fetcher the search function returns
DynamicFetcher(cfg, k) == [kind |-> "dynamic", m |-> k, path |-> 0, digest |-> cfg.dynDigest]

\* mirror_urls: for mirror in MirrorCollection: for rel_path in mirror_paths;
\* then fetchers.insert(0, ...) over reversed(mirror_urls) keeps that order
MutMirrorFetchers(cfg) ==
    [x \in 1..(cfg.mirrors * cfg.paths) |->
        MirrorFetcher(cfg, cfg.mirrors - ((x - 1) \div cfg.paths),
                           cfg.paths - ((x - 1) % cfg.paths))]
MirrorFetchers(cfg) ==
    [x \in 1..(cfg.mirrors * cfg.paths) |->
        MirrorFetcher(cfg, ((x - 1) \div cfg.paths) + 1, ((x - 1) % cfg.paths) + 1)]

\* if self.default_fetcher.cachable: insert(0, cache_fetcher) over reversed(mirror_paths)
CacheFetchers(cfg) ==
    IF cfg.cachable THEN [j \in 1..cfg.paths |-> CacheFetcher(cfg, j)] ELSE <<>>

\* the list `fetchers` as fetch() has built it when the loop starts
MutStaticFetchers(cfg, mirror_only) ==
    LET own == IF mirror_only THEN <<>> ELSE <<DefaultFetcher(cfg)>>
    IN  IF cfg.paths > 0
        THEN own \o CacheFetchers(cfg) \o MirrorFetchers(cfg)
        ELSE own
StaticFetchers(cfg, mirror_only) ==
    LET own == IF mirror_only THEN <<>> ELSE <<DefaultFetcher(cfg)>>
    IN  IF cfg.paths > 0
        THEN CacheFetchers(cfg) \o MirrorFetchers(cfg) \o own
        ELSE own

\* self.skip_checksum_for_mirror = True; if self.mirror_paths: ... = not bool(digest)
SkipChecksumForMirror(cfg) == IF cfg.paths > 0 THEN ~cfg.digest ELSE TRUE

\* generate_fetchers: if self.search_fn and not mirror_only
MutSearchAllowed(s) == s.cfg.search
SearchAllowed(s) == s.cfg.search /\ ~s.mirror_only

DynamicFetchers(cfg) == [k \in 1..cfg.ndyn |-> DynamicFetcher(cfg, k)]

\* how one candidate's fetch() can end: "ok"; NoCacheError (a cache fetcher);
\* another SpackError such as a FetchError; or an exception that is no
\* SpackError ("crash"), which the loop does not catch
FetchOutcomes(f) ==
    IF f.kind = "cache"
    THEN {"ok", "NoCacheError", "SpackError", "crash"}
    ELSE {"ok", "SpackError", "crash"}

Recoverable == {"NoCacheError", "SpackError"}

\* self.fetcher = fetcher, before self.fetcher.fetch()
MutAttemptFetcher(s) == s.fetcher
AttemptFetcher(s) == s.fetchers[s.idx]

\* self.fetcher = self.default_fetcher, when the loop ends without a break
MutExhaustedFetcher(s) == s.fetcher
ExhaustedFetcher(s) == DefaultFetcher(s.cfg)

\* raise FetchError(err_msg or default_msg, None)
RaisedMsg(err_msg) == IF err_msg \in {NoneMsg, ""} THEN DefaultMsg ELSE err_msg

FetchConfigs ==
    {c \in [mirrors : 0..MaxMirrors, paths : 0..MaxPaths, digest : BOOLEAN,
            cachable : BOOLEAN, search : BOOLEAN, ndyn : 0..MaxDyn,
            dynDigest : BOOLEAN, checksum : BOOLEAN] :
        /\ ~c.search => c.ndyn = 0
        /\ c.ndyn = 0 => ~c.dynDigest}

\* Stage.__init__: fetcher, default_fetcher, skip_checksum_for_mirror
NewStage(cfg) ==
    [cfg |-> cfg, pc |-> "idle", op |-> "none",
     fetcher |-> DefaultFetcher(cfg), skip |-> TRUE,
     mirror_only |-> FALSE, err_msg |-> NoneMsg,
     fetchers |-> <<>>, idx |-> 0, searched |-> FALSE, attempts |-> <<>>,
     res |-> "ok", msg |-> "", archive |-> "none",
     called |-> FALSE, warned |-> FALSE]

\* fetch(mirror_only, err_msg) up to the loop
FetchStart(mirror_only, err_msg) ==
    /\ fst.pc # "loop"
    /\ fst' = [fst EXCEPT !.pc = "loop", !.op = "fetch",
                          !.mirror_only = mirror_only, !.err_msg = err_msg,
                          !.skip = SkipChecksumForMirror(fst.cfg),
                          !.fetchers = StaticFetchers(fst.cfg, mirror_only),
                          !.idx = 1, !.searched = FALSE, !.attempts = <<>>,
                          !.res = "ok", !.msg = "",
                          !.called = FALSE, !.warned = FALSE]

\* one round of the loop: the candidate becomes the active fetcher and its
\* fetch() ends with `out`; arch: whether the archive a successful fetch
\* leaves matches the digest
FetchAttempt(out, arch) ==
    /\ fst.pc = "loop"
    /\ fst.idx <= Len(fst.fetchers)
    /\ out \in FetchOutcomes(fst.fetchers[fst.idx])
    /\ arch \in (IF out = "ok" THEN {"match", "mismatch"} ELSE {fst.archive})
    /\ fst' = [fst EXCEPT !.fetcher = AttemptFetcher(fst),
                          !.attempts = Append(@, [f |-> fst.fetchers[fst.idx], out |-> out]),
                          !.archive = arch,
                          !.idx = IF out \in Recoverable THEN @ + 1 ELSE @,
                          !.pc = IF out \in Recoverable THEN "loop" ELSE "done",
                          !.res = IF out \in Recoverable THEN @ ELSE out]

\* generate_fetchers: `for fetcher in fetchers: yield fetcher` has ended,
\* every fetcher of the list having been asked for by the loop
MutYieldedAll(s) == TRUE
YieldedAll(s) == s.idx > Len(s.fetchers)

\* the generator reaches the search function
FetchSearch ==
    /\ fst.pc = "loop"
    /\ YieldedAll(fst)
    /\ SearchAllowed(fst) /\ ~fst.searched
    /\ fst' = [fst EXCEPT !.searched = TRUE,
                          !.fetchers = @ \o DynamicFetchers(fst.cfg)]

\* the loop's else branch
FetchExhausted ==
    /\ fst.pc = "loop"
    /\ fst.idx > Len(fst.fetchers)
    /\ SearchAllowed(fst) => fst.searched
    /\ fst' = [fst EXCEPT !.pc = "done",
                          !.fetcher = ExhaustedFetcher(fst),
                          !.res = "FetchError",
                          !.msg = RaisedMsg(fst.err_msg)]

\* if self.fetcher is not self.default_fetcher and self.skip_checksum_for_mirror
WarnsInsteadOfCheck(s) == s.fetcher # DefaultFetcher(s.cfg) /\ s.skip

\* elif spack.config.get("config:checksum")
MutDelegatesCheck(s) == ~WarnsInsteadOfCheck(s)
DelegatesCheck(s) == ~WarnsInsteadOfCheck(s) /\ s.cfg.checksum

\* FetchStrategy.check(): fails with ChecksumError when the archive does not
\* match the digest the fetcher carries
FetcherCheckFails(s) == s.fetcher.digest /\ s.archive = "mismatch"

StageCheck ==
    /\ fst.pc # "loop"
    /\ fst' = [fst EXCEPT !.op = "check",
                          !.warned = WarnsInsteadOfCheck(fst),
                          !.called = DelegatesCheck(fst),
                          !.res = IF DelegatesCheck(fst) /\ FetcherCheckFails(fst)
                                  THEN "ChecksumError" ELSE "ok"]

InitFetch ==
    /\ LockInit
    /\ fs = [n \in StageNames |-> AbsentPath]
    /\ \E cfg \in FetchConfigs : fst = NewStage(cfg)
    /\ cm = [p \in Procs |-> [pc |-> "idle"]]
    /\ extRoot = {}
    /\ cev = [op |-> "none"]
    /\ ss = NotUsed /\ rs = NotUsed /\ cs = NotUsed /\ dy = NotUsed /\ sr = NotUsed /\ lf = NotUsed

NextFetch ==
    \/ \E mirror_only \in BOOLEAN, err_msg \in ErrMsgs :
          FetchStart(mirror_only, err_msg) /\ UNCHANGED outsideFetch
    \/ \E out \in {"ok", "NoCacheError", "SpackError", "crash"},
          arch \in {"none", "match", "mismatch"} :
          FetchAttempt(out, arch) /\ UNCHANGED outsideFetch
    \/ FetchSearch /\ UNCHANGED outsideFetch
    \/ FetchExhausted /\ UNCHANGED outsideFetch
    \/ StageCheck /\ UNCHANGED outsideFetch

SpecFetch == InitFetch /\ [][NextFetch]_vars

(***************************************************************************)
(* CMakeBuildStage: the external build directory of a stage.               *)
(*                                                                         *)
(* Each process has one CMakeBuildStage, in a stage directory of its own;  *)
(* the processes share the external build root, extRoot, the set of the    *)
(* names in it. A name is the sequence of its character codes (97 is "a",  *)
(* 122 is "z"). In cm[p]:                                                  *)
(*   pc       "idle" (no call in progress, remote_stage unset), "done" (no *)
(*            call in progress, remote_stage set), "mkdir" (create() is in *)
(*            the retry loop of _setup_remote_build_stage, the name        *)
(*            computed before the loop) or "made" (its mkdir succeeded);   *)
(*   created  Stage.created;                                               *)
(*   remote   _remote_stage, NoName for None;                              *)
(*   link     what the link at root_stage_context points to, NoName when   *)
(*            there is no link;                                            *)
(*   made     the directory of remote/link was made by a mkdir of p.       *)
(* cev is how the last call ended (by a name of its own for each way a     *)
(* call can end) and the number of allocations begun.                      *)
(***************************************************************************)
RetryBudget == 200

\* how many allocations a behaviour of the model makes
MaxAllocs == 2

NoName == <<>>

CmIdle ==
    [pc |-> "idle", sub |-> NoName, attempts |-> 0, made |-> FALSE,
     remote |-> NoName, created |-> FALSE, link |-> NoName]

\* sort_key = lambda x: (len(x.name), x.name)
LexLess(a, b) ==
    \E i \in 1..Len(a) : a[i] < b[i] /\ \A j \in 1..(i - 1) : a[j] = b[j]

KeyLess(a, b) == Len(a) < Len(b) \/ (Len(a) = Len(b) /\ LexLess(a, b))

\* sorted(current_ext_stages, key=sort_key)[-1]
MutLastName(listing) == CHOOSE x \in listing : \A y \in listing : y = x \/ KeyLess(x, y)
LastName(listing) == CHOOSE x \in listing : \A y \in listing : y = x \/ KeyLess(y, x)

Front(c) == SubSeq(c, 1, Len(c) - 1)

\* inc(c)
RECURSIVE Inc(_)
Inc(c) ==
    LET curr == c[Len(c)]
        over == curr \div 122
    IN  IF over # 0
        THEN (IF Len(c) > 1 THEN Inc(Front(c)) ELSE <<97>>) \o <<97>>
        ELSE Front(c) \o <<curr + 1>>

\* _compute_next_open_subdir
MutNextOpenSubdir(listing) == IF listing = {} THEN <<97>> ELSE LastName(listing) \o <<97>>
NextOpenSubdir(listing) == IF listing = {} THEN <<97>> ELSE Inc(LastName(listing))

\* cev: the result of the last step, the number of allocations begun and
\* the name of the directory made last
CmEvent(res, dn) == [cev EXCEPT !.res = res, !.n = cev.n + dn]

\* root_stage_context.exists(): the link is there and what it points to is
MutLinkResolves(c) == FALSE
LinkResolves(c) == c.link # NoName /\ c.link \in extRoot

\* `except Exception: self._teardown_remote_stage()` when the failure came
\* before _remote_stage was assigned: None has no exists(), the handler
\* raises AttributeError in place of the failure and created stays set
FailedBeforeAllocation(c) ==
    [c EXCEPT !.pc = "idle", !.sub = NoName, !.attempts = 0, !.made = FALSE,
              !.remote = NoName, !.created = TRUE]

\* create() called with created unset, up to the retry loop: the stage
\* directory is made, an extant link is picked up, and else the external
\* root is made if need be and the name computed from the listing, once
CreateOutcomes == {"ok", "root_fail"}

CreateStart(c, out) ==
    IF LinkResolves(c)
    THEN [c |-> [c EXCEPT !.pc = "done", !.created = TRUE, !.remote = c.link],
          res |-> "pickup", dn |-> 0]
    ELSE IF out = "root_fail"
    THEN [c |-> FailedBeforeAllocation(c), res |-> "AttributeError", dn |-> 0]
    ELSE [c |-> [c EXCEPT !.pc = "mkdir", !.created = TRUE, !.made = FALSE,
                          !.attempts = 0, !.sub = NextOpenSubdir(extRoot)],
          res |-> "ok", dn |-> 1]

CanStart(c, out) ==
    IF LinkResolves(c) THEN out = "ok" ELSE cev.n < MaxAllocs

\* create(), or the scoped entry that calls it
CmCompute(p, out) ==
    /\ cm[p].pc \in {"idle", "done"}
    /\ IF cm[p].created
       THEN /\ out = "ok"
            /\ cev' = CmEvent("noop", 0)
            /\ UNCHANGED cm
       ELSE /\ CanStart(cm[p], out)
            /\ LET r == CreateStart(cm[p], out)
               IN  /\ cm' = [cm EXCEPT ![p] = r.c]
                   /\ cev' = CmEvent(r.res, r.dn)
    /\ UNCHANGED extRoot

\* one round of `while True and attempts < 200`: full_subdir.mkdir() makes
\* the directory, or raises FileExistsError and the round is counted, or
\* raises another error, which leaves the loop and create()'s try block
CmMkdir(p, out) ==
    /\ cm[p].pc = "mkdir"
    /\ cm[p].attempts < RetryBudget
    /\ IF out = "oserror"
       THEN /\ cm' = [cm EXCEPT ![p] = FailedBeforeAllocation(cm[p])]
            /\ cev' = CmEvent("AttributeError", 0)
            /\ UNCHANGED extRoot
       ELSE /\ IF cm[p].sub \in extRoot
               THEN /\ cm' = [cm EXCEPT ![p].attempts = @ + 1]
                    /\ UNCHANGED extRoot
               ELSE /\ cm' = [cm EXCEPT ![p].pc = "made", ![p].made = TRUE]
                    /\ extRoot' = extRoot \cup {cm[p].sub}
            /\ cev' = [CmEvent("ok", 0) EXCEPT
                          !.last = IF cm[p].sub \in extRoot THEN @ ELSE cm[p].sub]

\* symlink() raises when there is an entry at root_stage_context already
LinkOutcomes(c) == IF c.link # NoName THEN {"link_fail"} ELSE {"ok", "link_fail"}

Linked(c, name) == [c EXCEPT !.pc = "done", !.remote = name, !.link = name]

\* the loop is left, by break or with the attempts used up: return
\* full_subdir, which create() takes as _remote_stage and links; when the
\* link fails the handler tears the directory down and re-raises
CmReturn(p, out) ==
    /\ \/ cm[p].pc = "made"
       \/ cm[p].pc = "mkdir" /\ cm[p].attempts >= RetryBudget
    /\ out \in LinkOutcomes(cm[p])
    /\ IF out = "ok"
       THEN /\ cm' = [cm EXCEPT ![p] = Linked(cm[p], cm[p].sub)]
            /\ cev' = CmEvent("linked", 0)
            /\ UNCHANGED extRoot
       ELSE /\ cm' = [cm EXCEPT ![p] = [CmIdle EXCEPT !.link = cm[p].link]]
            /\ extRoot' = extRoot \ {cm[p].sub}
            /\ cev' = CmEvent("reraise", 0)

\* _return_destroy_remote: with _remote_stage set, unlink the link and, in
\* the finally, tear the external directory down if it exists and unset
\* _remote_stage. unlink() raises when there is no link; teardown() raises
\* when an entry cannot be deleted, before _remote_stage is unset.
RemoteOutcomes(c) ==
    IF c.remote = NoName THEN {"ok"}
    ELSE IF c.link = NoName THEN {"unlink_fail"}
    ELSE {"ok"} \cup (IF c.remote \in extRoot THEN {"teardown_fail"} ELSE {})

ReturnDestroyRemote(c, out) ==
    IF c.remote = NoName THEN c
    ELSE IF out = "teardown_fail" THEN [c EXCEPT !.link = NoName]
    ELSE [c EXCEPT !.pc = "idle", !.link = NoName, !.remote = NoName, !.made = FALSE]

RemoteRoot(c, out) ==
    IF c.remote = NoName \/ out = "teardown_fail" THEN extRoot ELSE extRoot \ {c.remote}

\* destroy(), or the scoped exit that calls it: _return_destroy_remote, then
\* Stage.destroy, which removes the stage directory, the link in it
\* included, and unsets created, or raises (rm "fail")
MutBaseDestroyed(c) == c
BaseDestroyed(c) == [c EXCEPT !.link = NoName, !.created = FALSE]

CmDestroy(p, out, rm) ==
    /\ cm[p].pc \in {"idle", "done"}
    /\ out \in RemoteOutcomes(cm[p])
    /\ LET c == ReturnDestroyRemote(cm[p], out)
       IN  IF out # "ok"
           THEN /\ rm = "ok"
                /\ cm' = [cm EXCEPT ![p] = c]
                /\ cev' = CmEvent(out, 0)
           ELSE IF rm = "fail"
           THEN /\ cm' = [cm EXCEPT ![p] = c]
                /\ cev' = CmEvent("rm_fail", 0)
           ELSE /\ cm' = [cm EXCEPT ![p] = BaseDestroyed(c)]
                /\ cev' = CmEvent(IF cm[p].remote # NoName THEN "destroyed_remote"
                                                          ELSE "destroyed", 0)
    /\ extRoot' = RemoteRoot(cm[p], out)

\* restage(): _return_destroy_remote, then Stage.restage, which is
\* fetcher.reset() and may raise, then create()
CmRestage(p, out, reset, cout) ==
    /\ cm[p].pc \in {"idle", "done"}
    /\ out \in RemoteOutcomes(cm[p])
    /\ LET c == ReturnDestroyRemote(cm[p], out)
       IN  IF out # "ok"
           THEN /\ reset = "ok" /\ cout = "ok"
                /\ cm' = [cm EXCEPT ![p] = c]
                /\ cev' = CmEvent(out, 0)
           ELSE IF reset = "fail"
           THEN /\ cout = "ok"
                /\ cm' = [cm EXCEPT ![p] = c]
                /\ cev' = CmEvent("reset_fail", 0)
           ELSE IF c.created
           THEN /\ cout = "ok"
                /\ cm' = [cm EXCEPT ![p] = c]
                /\ cev' = CmEvent("restaged", 0)
           ELSE /\ CanStart(c, cout)
                /\ LET r == CreateStart(c, cout)
                   IN  /\ cm' = [cm EXCEPT ![p] = r.c]
                       /\ cev' = CmEvent(r.res, r.dn)
    /\ extRoot' = RemoteRoot(cm[p], out)

\* a later CMakeBuildStage of the same stage directory, which a kept stage
\* leaves behind with its link
CmNew(p) ==
    /\ cm[p].pc \in {"idle", "done"}
    /\ cm[p].created
    /\ cm' = [cm EXCEPT ![p] = [CmIdle EXCEPT !.link = cm[p].link,
                                              !.made = cm[p].made /\ cm[p].link # NoName]]
    /\ cev' = CmEvent("ok", 0)
    /\ UNCHANGED extRoot

\* what the external root holds before any stage of the model is created
InitialRoots == {{}, {<<97>>}, {<<97, 122>>}}

InitCMake ==
    /\ LockInit
    /\ fs = [n \in StageNames |-> AbsentPath]
    /\ fst = FetchIdle
    /\ cm = [p \in Procs |-> CmIdle]
    /\ extRoot \in InitialRoots
    /\ cev = [res |-> "none", n |-> 0, last |-> NoName]
    /\ ss = NotUsed /\ rs = NotUsed /\ cs = NotUsed /\ dy = NotUsed /\ sr = NotUsed /\ lf = NotUsed

NextCMake ==
    \/ \E p \in Procs, out \in CreateOutcomes :
          CmCompute(p, out) /\ UNCHANGED outsideCMake
    \/ \E p \in Procs, out \in {"ok", "oserror"} :
          CmMkdir(p, out) /\ UNCHANGED outsideCMake
    \/ \E p \in Procs, out \in {"ok", "link_fail"} :
          CmReturn(p, out) /\ UNCHANGED outsideCMake
    \/ \E p \in Procs, out \in {"ok", "unlink_fail", "teardown_fail"}, rm \in {"ok", "fail"} :
          CmDestroy(p, out, rm) /\ UNCHANGED outsideCMake
    \/ \E p \in Procs, out \in {"ok", "unlink_fail", "teardown_fail"},
          reset \in {"ok", "fail"}, cout \in CreateOutcomes :
          CmRestage(p, out, reset, cout) /\ UNCHANGED outsideCMake
    \/ \E p \in Procs : CmNew(p) /\ UNCHANGED outsideCMake

SpecCMake == InitCMake /\ [][NextCMake]_vars

(***************************************************************************)
(* _compute_next_open_subdir over the listings of the external root: the   *)
(* subsets of a pool of names, and the 26 one-letter names.                *)
(***************************************************************************)
Letters == 97..122

OneLetterNames == {<<c>> : c \in Letters}

\* "a", "y", "z", "az", "ba", "zy", "zz", "B", "a{"
NamePool ==
    {<<97>>, <<121>>, <<122>>, <<97, 122>>, <<98, 97>>, <<122, 121>>, <<122, 122>>,
     <<66>>, <<97, 123>>}

Listings == (SUBSET NamePool) \cup {OneLetterNames}

InitNames ==
    /\ LockInit
    /\ fs = [n \in StageNames |-> AbsentPath]
    /\ fst = FetchIdle
    /\ cm = [p \in Procs |-> CmIdle]
    /\ extRoot \in Listings
    /\ cev = [res |-> "none", n |-> 0, last |-> NoName]
    /\ ss = NotUsed /\ rs = NotUsed /\ cs = NotUsed /\ dy = NotUsed /\ sr = NotUsed /\ lf = NotUsed

NextNames ==
    \E p \in Procs : CmCompute(p, "ok") /\ UNCHANGED outsideCMake

SpecNames == InitNames /\ [][NextNames]_vars

(***************************************************************************)
(* Stage.steal_source, on one Stage.                                       *)
(*                                                                         *)
(* ss.dir says whether the stage directory exists, ss.archive whether the  *)
(* archive file is in it, ss.expanded whether source_path exists and       *)
(* ss.tree which entries source_path has; ss.pkg is the tree the package   *)
(* expands to. ss.destDir and ss.dest are the destination directory and    *)
(* its entries. ss.res is how the last call ended and ss.stolen what       *)
(* steal_source() found when it copied.                                    *)
(***************************************************************************)
ArchiveName == "pkg.tar.gz"

SourceEntries == {".git", "lib", "README"}

DirectoryEntries == {".git", "lib"}

\* glob(source_path/.*) and glob(source_path/*)
HiddenEntries(tree) == tree \cap {".git"}

PlainEntries(tree) == tree \ {".git"}

\* hidden_entries + entries
MutCopiedEntries(tree) == PlainEntries(tree)
CopiedEntries(tree) == HiddenEntries(tree) \cup PlainEntries(tree)

\* shutil.copytree(entry, d) raises when d exists
Colliding(tree, dest) == CopiedEntries(tree) \cap DirectoryEntries \cap dest

NoneStolen == [tree |-> {}, archive |-> FALSE, created |-> FALSE, expanded |-> FALSE]

\* Stage.create
SsCreated(s) == [s EXCEPT !.created = TRUE, !.dir = TRUE]

\* Stage.fetch, by its outcome: a URL fetcher leaves the archive file, a
\* version control fetcher the checked out tree
SsFetched(s) ==
    IF s.kind = "url" THEN [s EXCEPT !.archive = TRUE]
    ELSE [s EXCEPT !.expanded = TRUE, !.tree = s.pkg]

\* Stage.expand_archive
SsExpanded(s) == IF s.expanded THEN s ELSE [s EXCEPT !.expanded = TRUE, !.tree = s.pkg]

\* Stage.destroy
SsDestroyed(s) ==
    [s EXCEPT !.created = FALSE, !.dir = FALSE, !.archive = FALSE,
              !.expanded = FALSE, !.tree = {}]

SsCreate ==
    /\ ss' = [SsCreated(ss) EXCEPT !.res = "ok", !.stolen = NoneStolen]
    /\ UNCHANGED outsideSteal

SsFetch(out) ==
    /\ ss.dir
    /\ ss' = [(IF out = "ok" THEN SsFetched(ss) ELSE ss)
                 EXCEPT !.res = out, !.stolen = NoneStolen]
    /\ UNCHANGED outsideSteal

SsExpand(out) ==
    /\ ss.dir
    /\ ss.expanded \/ ss.archive \/ ss.kind = "vcs"
    /\ ss' = [(IF out = "ok" THEN SsExpanded(ss) ELSE ss)
                 EXCEPT !.res = out, !.stolen = NoneStolen]
    /\ UNCHANGED outsideSteal

NeedsFetch(s) == ~s.expanded /\ ~s.archive

\* steal_source(dest): fout, eout and dout are how fetch(), expand_archive()
\* and destroy() end where they are called, and copied is what a copy loop
\* that stops at a colliding directory had copied before
SsStealSource(fout, eout, dout, copied) ==
    LET s1 == IF ss.created THEN ss ELSE SsCreated(ss)
        s2 == IF NeedsFetch(s1) THEN SsFetched(s1) ELSE s1
        s3 == SsExpanded(s2)
        found == [tree |-> s3.tree, archive |-> s3.archive,
                  created |-> ss.created, expanded |-> ss.expanded]
        entries == CopiedEntries(s3.tree)
        withArchive == IF s3.archive THEN {ArchiveName} ELSE {}
        s4 == [s3 EXCEPT !.destDir = TRUE, !.dest = @ \cup entries \cup withArchive]
    IN  /\ NeedsFetch(s1) \/ fout = "ok"
        /\ (fout = "ok" /\ ~s2.expanded) \/ eout = "ok"
        /\ IF fout # "ok"
           THEN /\ dout = "ok" /\ copied = {}
                /\ ss' = [s1 EXCEPT !.res = "fetch_fail", !.stolen = NoneStolen]
           ELSE IF eout # "ok"
           THEN /\ dout = "ok" /\ copied = {}
                /\ ss' = [s2 EXCEPT !.res = "expand_fail", !.stolen = NoneStolen]
           ELSE IF Colliding(s3.tree, ss.dest) # {}
           THEN /\ dout = "ok"
                /\ copied \subseteq entries \ Colliding(s3.tree, ss.dest)
                /\ ss' = [s3 EXCEPT !.destDir = TRUE, !.dest = @ \cup copied,
                                    !.res = "copy_fail", !.stolen = NoneStolen]
           ELSE /\ copied = {}
                /\ IF dout # "ok"
                   THEN ss' = [s4 EXCEPT !.res = "destroy_fail", !.stolen = NoneStolen]
                   ELSE ss' = [SsDestroyed(s4) EXCEPT !.res = "stolen", !.stolen = found]
        /\ UNCHANGED outsideSteal

\* the stage directory a constructed Stage finds
StealStages ==
    {[dir |-> FALSE, archive |-> FALSE, expanded |-> FALSE],
     [dir |-> TRUE, archive |-> FALSE, expanded |-> FALSE],
     [dir |-> TRUE, archive |-> TRUE, expanded |-> FALSE],
     [dir |-> TRUE, archive |-> FALSE, expanded |-> TRUE],
     [dir |-> TRUE, archive |-> TRUE, expanded |-> TRUE]}

StealDests == {{}, {"lib"}, {"README"}, {"notes"}}

InitSteal ==
    /\ LockInit
    /\ fs = [n \in StageNames |-> AbsentPath]
    /\ fst = FetchIdle
    /\ cm = [p \in Procs |-> [pc |-> "idle"]]
    /\ extRoot = {}
    /\ cev = [op |-> "none"]
    /\ rs = NotUsed /\ cs = NotUsed /\ dy = NotUsed /\ sr = NotUsed /\ lf = NotUsed
    /\ \E keep \in BOOLEAN, kind \in {"url", "vcs"}, pkg \in SUBSET SourceEntries,
          st \in StealStages, destDir \in BOOLEAN, dest \in StealDests :
          /\ destDir \/ dest = {}
          /\ kind = "vcs" => ~st.archive
          /\ ss = [created |-> FALSE, keep |-> keep, kind |-> kind, pkg |-> pkg,
                   dir |-> st.dir, archive |-> st.archive, expanded |-> st.expanded,
                   tree |-> IF st.expanded THEN pkg ELSE {},
                   destDir |-> destDir, dest |-> dest,
                   res |-> "none", stolen |-> NoneStolen]

NextSteal ==
    \/ SsCreate
    \/ \E out \in {"ok", "fail"} : SsFetch(out)
    \/ \E out \in {"ok", "fail"} : SsExpand(out)
    \/ \E fout \in {"ok", "fail"}, eout \in {"ok", "fail"}, dout \in {"ok", "fail"},
          copied \in SUBSET SourceEntries :
          SsStealSource(fout, eout, dout, copied)

SpecSteal == InitSteal /\ [][NextSteal]_vars

(***************************************************************************)
(* ResourceStage: the placement of a resource in the root stage.           *)
(*                                                                         *)
(* A path below the root stage's source tree (below target_path) is the    *)
(* sequence of its names. rs.root is that tree: a set of entries, each a   *)
(* path and the content at it (for what a placement installed, the key and *)
(* the path below it).                                                     *)
(* rs.placement is the placement in the order of the dict, each entry with *)
(* its key and its destination path; rs.shape is what the resource's       *)
(* source tree has at a key. rs.res is how the last call ended and         *)
(* rs.before the tree it started with.                                     *)
(***************************************************************************)
PathX == <<"x">>
PathXY == <<"x", "y">>
PathZ == <<"z">>

\* the content of what was there before, and of a directory made on the way
OldContent == <<"old", <<>>>>
MadeContent == <<"made", <<>>>>

IsPrefix(a, b) == Len(a) <= Len(b) /\ SubSeq(b, 1, Len(a)) = a

\* os.path.exists(destination_path)
PathExists(root, path) == \E e \in root : e.path = path

Subtree(root, path) == {e \in root : IsPrefix(path, e.path)}

\* what the resource's source tree has at a key: a file, or a directory and
\* what is in it, as paths below it
SourceShapes == {"file", "dir_y", "dir_w"}

SourcePaths(shape) ==
    IF shape = "file" THEN {<<>>}
    ELSE IF shape = "dir_y" THEN {<<>>, <<"y">>}
    ELSE {<<>>, <<"w">>}

\* the directories install_tree makes above and at the destination
MissingAbove(root, path) ==
    {[path |-> SubSeq(path, 1, k), content |-> MadeContent] :
        k \in {j \in 1..(Len(path) - 1) : ~PathExists(root, SubSeq(path, 1, j))}}

\* install_tree(src, destination_path) / install(src, destination_path)
Installed(root, entry, shape) ==
    LET new == {[path |-> entry.dest \o rel, content |-> <<entry.key, rel>>] :
                   rel \in SourcePaths(shape)}
    IN  {e \in root : \A n \in new : n.path # e.path}
           \cup MissingAbove(root, entry.dest) \cup new

\* install() of a file needs the directory above the destination
InstallFails(root, entry, shape) ==
    /\ shape = "file"
    /\ Len(entry.dest) > 1
    /\ ~PathExists(root, SubSeq(entry.dest, 1, Len(entry.dest) - 1))

\* if not os.path.exists(destination_path)
MutDestinationFree(root, path) == TRUE
DestinationFree(root, path) == ~PathExists(root, path)

\* the loop of _add_to_root_stage from entry i on
RECURSIVE AddToRootStage(_, _, _, _)
AddToRootStage(root, placement, shape, i) ==
    IF i > Len(placement) THEN [root |-> root, res |-> "placed"]
    ELSE IF ~DestinationFree(root, placement[i].dest)
    THEN AddToRootStage(root, placement, shape, i + 1)
    ELSE IF InstallFails(root, placement[i], shape)
    THEN [root |-> root, res |-> "install_fail"]
    ELSE AddToRootStage(Installed(root, placement[i], shape), placement, shape, i + 1)

\* expand_archive() and restage(): Stage's own, which works in the
\* resource's stage and may raise, then _add_to_root_stage
RsCall(op, out) ==
    /\ IF out # "ok"
       THEN rs' = [rs EXCEPT !.res = op \o "_fail", !.before = rs.root, !.op = op]
       ELSE LET r == AddToRootStage(rs.root, rs.placement, rs.shape, 1)
            IN  rs' = [rs EXCEPT !.root = r.root, !.res = r.res,
                                 !.before = rs.root, !.op = op]
    /\ UNCHANGED outsideResource

RsExpandArchive(out) == RsCall("expand_archive", out)

RsRestage(out) == RsCall("restage", out)

Placements ==
    {<<[key |-> "", dest |-> PathX]>>,
     <<[key |-> "a", dest |-> PathX], [key |-> "b", dest |-> PathZ]>>,
     <<[key |-> "a", dest |-> PathX], [key |-> "b", dest |-> PathXY]>>,
     <<[key |-> "b", dest |-> PathXY], [key |-> "a", dest |-> PathX]>>}

Old(paths) == {[path |-> q, content |-> OldContent] : q \in paths}

RootTrees ==
    {Old({}), Old({PathX}), Old({PathX, PathXY}), Old({PathZ}), Old({PathX, PathZ}),
     Old({PathX, PathXY, PathZ})}

InitResource ==
    /\ LockInit
    /\ fs = [n \in StageNames |-> AbsentPath]
    /\ fst = FetchIdle
    /\ cm = [p \in Procs |-> [pc |-> "idle"]]
    /\ extRoot = {}
    /\ cev = [op |-> "none"]
    /\ ss = NotUsed /\ cs = NotUsed /\ dy = NotUsed /\ sr = NotUsed /\ lf = NotUsed
    /\ \E root \in RootTrees, placement \in Placements, shape \in SourceShapes :
          rs = [root |-> root, placement |-> placement, shape |-> shape,
                res |-> "none", before |-> root, op |-> "none"]

NextResource ==
    \/ \E out \in {"ok", "fail"} : RsExpandArchive(out)
    \/ \E out \in {"ok", "fail"} : RsRestage(out)

SpecResource == InitResource /\ [][NextResource]_vars

(***************************************************************************)
(* StageComposite.                                                         *)
(*                                                                         *)
(* cs.members is the list of the member stages, member 0 of the source     *)
(* being cs.members[1]; of each the model keeps its name, created, keep,   *)
(* whether its source tree and its archive file exist and its build        *)
(* directory. cs.keep is the composite's keep attribute ("unset" when it   *)
(* has none). cs.pc is "idle", "entering" or "exiting" while __enter__ or  *)
(* __exit__ is in its loop, and "inside" in the scope; cs.idx is the       *)
(* position in the loop, cs.log the calls made on members since the scope  *)
(* was entered, cs.answer the answer to the last query.                    *)
(***************************************************************************)
MaxMembers == 3

MemberNames == <<"m0", "m1", "m2", "m3">>

\* for item in self
EnterOrder(n) == [k \in 1..n |-> k]

\* for item in reversed(self)
MutExitOrder(n) == [k \in 1..n |-> k]
ExitOrder(n) == [k \in 1..n |-> n + 1 - k]

\* getattr(self, "keep", False)
CompositeKeep == IF cs.keep = "unset" THEN FALSE ELSE cs.keep = "True"

NoAnswer == [q |-> "none", val |-> <<>>]

CsEnterStart ==
    /\ cs.pc = "idle"
    /\ cs' = [cs EXCEPT !.pc = "entering", !.idx = 1, !.log = <<>>, !.res = "none"]
    /\ UNCHANGED outsideComposite

\* item.__enter__() of the next member, which may raise
CsEnterMember(out) ==
    /\ cs.pc = "entering"
    /\ LET n == Len(cs.members)
           i == EnterOrder(n)[cs.idx]
           log == Append(cs.log, [op |-> "enter", i |-> i])
       IN  IF out # "ok"
           THEN cs' = [cs EXCEPT !.pc = "idle", !.log = log, !.res = "enter_fail"]
           ELSE cs' = [cs EXCEPT !.members[i].created = TRUE, !.members[i].held = TRUE,
                                 !.log = log,
                                 !.idx = @ + 1,
                                 !.pc = IF cs.idx = n THEN "inside" ELSE "entering",
                                 !.res = IF cs.idx = n THEN "entered" ELSE "none"]
    /\ UNCHANGED outsideComposite

CsExitStart(exc) ==
    /\ cs.pc = "inside"
    /\ cs' = [cs EXCEPT !.pc = "exiting", !.idx = 1, !.exc = exc, !.res = "none"]
    /\ UNCHANGED outsideComposite

\* Stage.__exit__ of a member: destroy unless an exception or keep, then
\* release the lock
MutMemberExited(m, keep, exc) ==
    IF exc \/ m.keep THEN [m EXCEPT !.held = FALSE]
    ELSE [m EXCEPT !.held = FALSE, !.created = FALSE, !.expanded = FALSE, !.archive = FALSE]
MemberExited(m, keep, exc) ==
    IF exc \/ keep THEN [m EXCEPT !.keep = keep, !.held = FALSE]
    ELSE [m EXCEPT !.keep = keep, !.held = FALSE,
                   !.created = FALSE, !.expanded = FALSE, !.archive = FALSE]

\* item.keep = getattr(self, "keep", False); item.__exit__(...), which may
\* raise
CsExitMember(out) ==
    /\ cs.pc = "exiting"
    /\ LET n == Len(cs.members)
           i == ExitOrder(n)[cs.idx]
           log == Append(cs.log, [op |-> "exit", i |-> i])
       IN  IF out # "ok"
           THEN cs' = [cs EXCEPT !.members[i].keep = CompositeKeep,
                                 !.pc = "idle", !.log = log, !.res = "exit_fail"]
           ELSE cs' = [cs EXCEPT !.members[i] = MemberExited(@, CompositeKeep, cs.exc),
                                 !.log = log, !.idx = @ + 1,
                                 !.pc = IF cs.idx = n THEN "idle" ELSE "exiting",
                                 !.res = IF cs.idx = n THEN "exited" ELSE "none"]
    /\ UNCHANGED outsideComposite

\* the queries of a Stage
Queries ==
    {"source_path", "expanded", "path", "archive_file", "build_directory",
     "contains", "path_rel_to_stage"}

QueryArgs == {"/stage/m0/spack-src/a.c", "/stage/m1/spack-src/a.c"}

Bool(b) == IF b THEN "True" ELSE "False"

MemberAnswer(m, q, arg) ==
    IF q = "source_path" THEN <<m.name, "spack-src">>
    ELSE IF q = "expanded" THEN <<Bool(m.expanded)>>
    ELSE IF q = "path" THEN <<m.name>>
    ELSE IF q = "archive_file" THEN (IF m.archive THEN <<m.name, ArchiveName>> ELSE <<"None">>)
    ELSE IF q = "build_directory" THEN <<m.name, "build">>
    ELSE IF q = "contains" THEN <<Bool(arg = "/stage/" \o m.name \o "/spack-src/a.c")>>
    ELSE <<"relpath", arg, m.name>>

\* self[0]
MutAnsweringMember(members) == Len(members)
AnsweringMember(members) == 1

CsQuery(q, arg) ==
    /\ cs' = [cs EXCEPT !.answer =
                 [q |-> q, val |-> MemberAnswer(cs.members[AnsweringMember(cs.members)], q, arg)]]
    /\ UNCHANGED outsideComposite

\* a member as constructed: keep is the constructor's argument, given
\* remembers it, held says whether the member's scope has been entered and
\* not left, with its write lock
Member(k, expanded, archive, keep) ==
    [name |-> MemberNames[k], created |-> FALSE, keep |-> keep, given |-> keep,
     held |-> FALSE, expanded |-> expanded, archive |-> archive]

InitComposite ==
    /\ LockInit
    /\ fs = [n \in StageNames |-> AbsentPath]
    /\ fst = FetchIdle
    /\ cm = [p \in Procs |-> [pc |-> "idle"]]
    /\ extRoot = {}
    /\ cev = [op |-> "none"]
    /\ ss = NotUsed /\ rs = NotUsed /\ dy = NotUsed /\ sr = NotUsed /\ lf = NotUsed
    /\ \E n \in 1..MaxMembers, keep \in {"unset", "True", "False"},
          e \in [1..MaxMembers -> BOOLEAN], a \in [1..MaxMembers -> BOOLEAN],
          kp \in [1..MaxMembers -> BOOLEAN] :
          \* only member 0 may start with a downloaded archive
          /\ \A k \in 2..MaxMembers : ~a[k]
          /\ \A k \in (n + 1)..MaxMembers : ~e[k] /\ ~kp[k]
          /\ cs = [members |-> [k \in 1..n |-> Member(k, e[k], a[k], kp[k])],
                   keep |-> keep, pc |-> "idle", idx |-> 0, log |-> <<>>,
                   exc |-> FALSE, res |-> "none", answer |-> NoAnswer]

NextComposite ==
    \/ CsEnterStart
    \/ \E out \in {"ok", "fail"} : CsEnterMember(out)
    \/ \E exc \in BOOLEAN : CsExitStart(exc)
    \/ \E out \in {"ok", "fail"} : CsExitMember(out)
    \/ \E q \in Queries, arg \in QueryArgs : CsQuery(q, arg)

SpecComposite == InitComposite /\ [][NextComposite]_vars

(***************************************************************************)
(* DIYStage: any directory used as a stage, not managed by the program.    *)
(* dy.dir is the filesystem entry at the path given to the constructor,    *)
(* dy.before that entry when the stage was constructed, dy.n the number of *)
(* calls made on the stage.                                                *)
(***************************************************************************)
MaxCalls == 3

DIYDirs == {[kind |-> "dir", acc |-> a, content |-> c] : a \in BOOLEAN, c \in SUBSET DirEntries}
DIYArgs == {"None", "path"}

\* what a call leaves in dy: the method, its result and the count of calls
DIYCalled(d, op, res) == [d EXCEPT !.op = op, !.res = res, !.n = d.n + 1]

\* DIYStage(path): ValueError without a path, StagePathError when the path
\* is not a directory; otherwise archive_file None and created True
DIYInit(arg) ==
    /\ dy.pc = "new"
    /\ dy' = IF arg = "None"
             THEN [dy EXCEPT !.pc = "failed", !.op = "__init__", !.res = "ValueError"]
             ELSE IF dy.dir.kind # "dir"
             THEN [dy EXCEPT !.pc = "failed", !.op = "__init__", !.res = "StagePathError"]
             ELSE [dy EXCEPT !.pc = "stage", !.op = "__init__", !.res = "ok",
                             !.before = dy.dir, !.created = TRUE]
    /\ UNCHANGED <<outsideDIY>>

DIYCanCall == dy.pc = "stage" /\ dy.n < MaxCalls

\* __enter__, __exit__: pass
DIYEnter == DIYCanCall /\ dy' = DIYCalled(dy, "__enter__", "ok") /\ UNCHANGED <<outsideDIY>>
DIYExit == DIYCanCall /\ dy' = DIYCalled(dy, "__exit__", "ok") /\ UNCHANGED <<outsideDIY>>

\* fetch, check, expand_archive, cache_local: a debug message only
DIYFetch == DIYCanCall /\ dy' = DIYCalled(dy, "fetch", "ok") /\ UNCHANGED <<outsideDIY>>
DIYCheck == DIYCanCall /\ dy' = DIYCalled(dy, "check", "ok") /\ UNCHANGED <<outsideDIY>>
DIYExpandArchive == DIYCanCall /\ dy' = DIYCalled(dy, "expand_archive", "ok") /\ UNCHANGED <<outsideDIY>>
DIYCacheLocal == DIYCanCall /\ dy' = DIYCalled(dy, "cache_local", "ok") /\ UNCHANGED <<outsideDIY>>

\* restage: raise RestageError
DIYRestage == DIYCanCall /\ dy' = DIYCalled(dy, "restage", "RestageError") /\ UNCHANGED <<outsideDIY>>

\* create: self.created = True
DIYCreate ==
    /\ DIYCanCall
    /\ dy' = [DIYCalled(dy, "create", "ok") EXCEPT !.created = TRUE]
    /\ UNCHANGED <<outsideDIY>>

\* destroy: pass
MutDIYDestroyed(d) == [d EXCEPT !.dir = AbsentPath, !.created = FALSE]
DIYDestroyed(d) == d

DIYDestroy ==
    /\ DIYCanCall
    /\ dy' = DIYCalled(DIYDestroyed(dy), "destroy", "ok")
    /\ UNCHANGED <<outsideDIY>>

InitDIY ==
    /\ LockInit
    /\ fs = [n \in StageNames |-> AbsentPath]
    /\ fst = FetchIdle
    /\ cm = [p \in Procs |-> [pc |-> "idle"]]
    /\ extRoot = {}
    /\ cev = [op |-> "none"]
    /\ ss = NotUsed /\ rs = NotUsed /\ cs = NotUsed /\ sr = NotUsed /\ lf = NotUsed
    /\ \E f \in DIYDirs \cup {AbsentPath, FilePath} :
          dy = [pc |-> "new", dir |-> f, before |-> AbsentPath, created |-> FALSE,
                op |-> "none", res |-> "none", n |-> 0]

NextDIY ==
    \/ \E arg \in DIYArgs : DIYInit(arg)
    \/ DIYEnter
    \/ DIYExit
    \/ DIYFetch
    \/ DIYCheck
    \/ DIYExpandArchive
    \/ DIYCacheLocal
    \/ DIYRestage
    \/ DIYCreate
    \/ DIYDestroy

SpecDIY == InitDIY /\ [][NextDIY]_vars

(***************************************************************************)
(* The stage root: get_stage_root() and the module variable _stage_root.   *)
(* A path is a sequence of nodes.  sr.root is _stage_root, sr.config the   *)
(* value of config:build_stage, sr.tmp the value of $tempdir, sr.rfs the   *)
(* filesystem at the resolved candidates, sr.first the first path a call   *)
(* returned, sr.evaluated whether the last call evaluated the candidates.  *)
(***************************************************************************)
MaxRootCalls == 3

NoRoot == <<>>
User == "u"
TempTemplate == <<"$tempdir", "$user", "stage">>
ScratchTemplate == <<"scratch">>
TempDirs == {<<"tmp">>, <<"tmp", User>>}

\* sup.canonicalize_path: $tempdir and $user are substituted
RECURSIVE Canonicalize(_, _)
Canonicalize(path, tmp) ==
    IF path = <<>> THEN <<>>
    ELSE LET h == Head(path)
             r == Canonicalize(Tail(path), tmp)
         IN IF h = "$tempdir" THEN tmp \o r
            ELSE IF h = "$user" THEN <<User>> \o r
            ELSE <<h>> \o r

Nodes(path) == {path[i] : i \in 1..Len(path)}

\* one candidate of _resolve_paths: the extra $user of $tempdir/$user is
\* removed when $tempdir holds the user, and the user is appended to a path
\* that does not hold it
ResolvePath(path, tmp) ==
    LET tmp_has_usr == User \in Nodes(tmp)
        stripped == IF Len(path) >= 2 /\ path[1] = "$tempdir" /\ path[2] = "$user" /\ tmp_has_usr
                    THEN <<path[1]>> \o SubSeq(path, 3, Len(path))
                    ELSE path
        can_path == Canonicalize(stripped, tmp)
    IN IF User \notin Nodes(can_path) THEN can_path \o <<User>> ELSE can_path

ResolvePaths(candidates, tmp) == [i \in 1..Len(candidates) |-> ResolvePath(candidates[i], tmp)]

\* config:build_stage is a string or a list of strings
BuildStageConfigs ==
    {[str |-> TRUE, val |-> <<t>>] : t \in {TempTemplate, ScratchTemplate}}
    \cup {[str |-> FALSE, val |-> v] :
             v \in {<<>>, <<TempTemplate>>, <<TempTemplate, ScratchTemplate>>,
                    <<ScratchTemplate, TempTemplate>>}}

RootPaths == {ResolvePath(t, tmp) : t \in {TempTemplate, ScratchTemplate}, tmp \in TempDirs}
RootKinds == {"absent", "dir", "denied"}

\* create_stage_root(path): the directory is made, or OSError is raised
\* with nothing made, or with the path made but not accessible
RootCreateOutcomes == {"ok", "oserror", "eacces"}

\* _first_accessible_path from the i-th path on: the path found (NoRoot for
\* None) and the filesystem left
MutFirstAccessiblePath(paths, i, f, outs) ==
    [path |-> IF Len(paths) = 0 THEN NoRoot ELSE paths[1], rfs |-> f]
RECURSIVE FirstAccessiblePath(_, _, _, _)
FirstAccessiblePath(paths, i, f, outs) ==
    IF i > Len(paths) THEN [path |-> NoRoot, rfs |-> f]
    ELSE LET path == paths[i] IN
         IF f[path] # "absent"
         THEN IF f[path] = "dir" THEN [path |-> path, rfs |-> f]
              ELSE FirstAccessiblePath(paths, i + 1, f, outs)
         ELSE IF outs[path] = "ok" THEN [path |-> path, rfs |-> [f EXCEPT ![path] = "dir"]]
              ELSE IF outs[path] = "eacces"
              THEN FirstAccessiblePath(paths, i + 1, [f EXCEPT ![path] = "denied"], outs)
              ELSE FirstAccessiblePath(paths, i + 1, f, outs)

\* if _stage_root is None
MutRootUnset(s) == TRUE
RootUnset(s) == s.root = NoRoot

\* get_stage_root()
GetStageRoot(outs) ==
    /\ sr.pc = "run"
    /\ sr.n < MaxRootCalls
    /\ IF RootUnset(sr)
       THEN LET resolved == ResolvePaths(sr.config.val, sr.tmp)
                found == FirstAccessiblePath(resolved, 1, sr.rfs, outs)
            IN IF found.path = NoRoot
               THEN sr' = [sr EXCEPT !.rfs = found.rfs, !.res = "StageError", !.ret = NoRoot,
                                     !.evaluated = TRUE, !.n = sr.n + 1]
               ELSE sr' = [sr EXCEPT !.rfs = found.rfs, !.root = found.path, !.res = "ok",
                                     !.ret = found.path, !.evaluated = TRUE, !.n = sr.n + 1,
                                     !.first = IF sr.first = NoRoot THEN found.path ELSE sr.first]
       ELSE sr' = [sr EXCEPT !.res = "ok", !.ret = sr.root, !.evaluated = FALSE, !.n = sr.n + 1,
                             !.first = IF sr.first = NoRoot THEN sr.root ELSE sr.first]
    /\ UNCHANGED <<outsideRoot>>

\* the configuration is changed between two calls
RootConfigChange(c, tmp) ==
    /\ sr.pc = "run"
    /\ sr' = [sr EXCEPT !.config = c, !.tmp = tmp]
    /\ UNCHANGED <<outsideRoot>>

\* the filesystem is changed between two calls
RootFsChange(path, k) ==
    /\ sr.pc = "run"
    /\ sr' = [sr EXCEPT !.rfs[path] = k]
    /\ UNCHANGED <<outsideRoot>>

InitRoot ==
    /\ LockInit
    /\ fs = [n \in StageNames |-> AbsentPath]
    /\ fst = FetchIdle
    /\ cm = [p \in Procs |-> [pc |-> "idle"]]
    /\ extRoot = {}
    /\ cev = [op |-> "none"]
    /\ ss = NotUsed /\ rs = NotUsed /\ cs = NotUsed /\ dy = NotUsed /\ lf = NotUsed
    /\ \E c \in BuildStageConfigs, tmp \in TempDirs, f \in [RootPaths -> RootKinds] :
          sr = [pc |-> "run", root |-> NoRoot, config |-> c, tmp |-> tmp, rfs |-> f,
                res |-> "none", ret |-> NoRoot, first |-> NoRoot, evaluated |-> FALSE, n |-> 0]

NextRoot ==
    \/ \E outs \in [RootPaths -> RootCreateOutcomes] : GetStageRoot(outs)
    \/ \E c \in BuildStageConfigs, tmp \in TempDirs : RootConfigChange(c, tmp)
    \/ \E path \in RootPaths, k \in RootKinds : RootFsChange(path, k)

SpecRoot == InitRoot /\ [][NextRoot]_vars

(***************************************************************************)
(* A base Stage, constructed without a lock, through its calls.            *)
(*                                                                         *)
(* lf.dir is the entry at the stage path ("absent", "dir", or "denied": a  *)
(* directory without access), lf.archive whether the archive file is in    *)
(* it, lf.expanded whether source_path exists. lf.bundle and lf.stable     *)
(* tell the kind of the default fetcher. lf.skip_unstable and lf.stored    *)
(* are the mirror's setting and whether the storage path exists in it,     *)
(* lf.added and lf.existed what the stats have recorded. lf.op and lf.res  *)
(* are the last call and how it ended, lf.log the calls it made in order,  *)
(* lf.prev the same of the call before, lf.n the number of calls so far.   *)
(***************************************************************************)
MaxLifeCalls == 3

\* Stage.create: the directory is made unless one is there; ensure_access
\* dies when it cannot be accessed, before created is set
LifeCreated(s) ==
    IF s.dir = "denied" THEN s
    ELSE [s EXCEPT !.dir = "dir", !.created = TRUE]

LifeCreateDies(s) == s.dir = "denied"

\* Stage.destroy, ending with out: "ok", "rm_fail" (remove_linked_tree
\* raised, the tree is still there) or "chdir_fail" (the tree is gone and
\* os.chdir raised); created is unset on "ok" only
LifeDestroyOutcomes == {"ok", "rm_fail", "chdir_fail"}

LifeDestroyed(s, out) ==
    IF out = "rm_fail" THEN s
    ELSE [s EXCEPT !.dir = "absent", !.archive = FALSE, !.expanded = FALSE,
                   !.created = IF out = "ok" THEN FALSE ELSE @]

\* Stage.fetch, ending with out: "ok" (the archive is in the stage),
\* "FetchError" or an exception of another kind
LifeFetchOutcomes(s) ==
    IF s.dir = "dir" THEN {"ok", "FetchError", "crash"} ELSE {"FetchError", "crash"}

MutLifeFetched(s, out) == [s EXCEPT !.archive = TRUE, !.created = (out = "ok")]
LifeFetched(s, out) == IF out = "ok" THEN [s EXCEPT !.archive = TRUE] ELSE s

\* Stage.check, ending with out
LifeCheckOutcomes == {"ok", "ChecksumError"}

\* Stage.expanded: os.path.exists(self.source_path)
MutLifeIsExpanded(s) == FALSE
LifeIsExpanded(s) == s.expanded

\* Stage.expand_archive: self.fetcher.expand() unless expanded; the calls made
LifeExpandCalls(s) == IF LifeIsExpanded(s) THEN <<>> ELSE <<"fetcher.expand">>

\* fetcher.expand() succeeds only on an archive that is in the stage
LifeExpandOutcomes(s) ==
    IF LifeIsExpanded(s) THEN {"ok"}
    ELSE IF s.archive /\ s.dir = "dir" THEN {"ok", "fail"}
    ELSE {"fail"}

LifeExpanded(s, out) ==
    IF ~LifeIsExpanded(s) /\ out = "ok" THEN [s EXCEPT !.expanded = TRUE] ELSE s

\* what a call leaves in lf; prev is the call before it
LifeCalled(s, op, res, log) ==
    [s EXCEPT !.op = op, !.res = res, !.log = log, !.n = lf.n + 1,
              !.prev = [op |-> lf.op, res |-> lf.res, log |-> lf.log]]

LifeCanCall == lf.pc = "stage" /\ lf.n < MaxLifeCalls

LfCreate ==
    /\ LifeCanCall
    /\ lf' = LifeCalled(LifeCreated(lf), "create",
                        IF LifeCreateDies(lf) THEN "die" ELSE "ok", <<>>)
    /\ UNCHANGED <<outsideLife>>

LfDestroy(out) ==
    /\ LifeCanCall
    /\ lf' = LifeCalled(LifeDestroyed(lf, out), "destroy", out, <<>>)
    /\ UNCHANGED <<outsideLife>>

LfFetch(out) ==
    /\ LifeCanCall
    /\ out \in LifeFetchOutcomes(lf)
    /\ lf' = LifeCalled(LifeFetched(lf, out), "fetch", out, <<>>)
    /\ UNCHANGED <<outsideLife>>

LfCheck(out) ==
    /\ LifeCanCall
    /\ lf' = LifeCalled(lf, "check", out, <<>>)
    /\ UNCHANGED <<outsideLife>>

LfExpandArchive(out) ==
    /\ LifeCanCall
    /\ out \in LifeExpandOutcomes(lf)
    /\ lf' = LifeCalled(LifeExpanded(lf, out), "expand_archive", out, LifeExpandCalls(lf))
    /\ UNCHANGED <<outsideLife>>

\* Stage.restage: self.fetcher.reset(), which expands the archive anew or
\* raises; a reset that raised may have removed the expanded tree
LfRestage(out, left) ==
    /\ LifeCanCall
    /\ IF out = "ok" THEN lf.archive /\ lf.dir = "dir" /\ left
       ELSE left \in {lf.expanded, FALSE}
    /\ lf' = LifeCalled([lf EXCEPT !.expanded = left], "restage", out, <<"fetcher.reset">>)
    /\ UNCHANGED <<outsideLife>>

\* Stage.__enter__ without a lock: create()
LfEnter ==
    /\ LifeCanCall
    /\ lf' = LifeCalled(LifeCreated(lf), "__enter__",
                        IF LifeCreateDies(lf) THEN "die" ELSE "ok", <<"create">>)
    /\ UNCHANGED <<outsideLife>>

\* Stage.__exit__ without a lock: destroy() unless an exception or keep
LfExit(exc, out) ==
    /\ LifeCanCall
    /\ IF ~exc /\ ~lf.keep
       THEN lf' = LifeCalled(LifeDestroyed(lf, out), "__exit__", out, <<"destroy">>)
       ELSE /\ out = "ok"
            /\ lf' = LifeCalled(lf, "__exit__", "ok", <<>>)
    /\ UNCHANGED <<outsideLife>>

\* Stage.steal_source: create, fetch and expand_archive as needed, the copy,
\* destroy; fout, eout, cout and dout are how the fetch, the expansion, the
\* copy and the destroy end where they are reached
LfStealSource(fout, eout, cout, dout) ==
    /\ LifeCanCall
    /\ LET s1 == IF lf.created THEN lf ELSE LifeCreated(lf)
           dies == ~lf.created /\ LifeCreateDies(lf)
           fetches == ~LifeIsExpanded(s1) /\ ~s1.archive
           s2 == IF fetches THEN LifeFetched(s1, fout) ELSE s1
           s3 == LifeExpanded(s2, eout)
           log1 == IF lf.created THEN <<>> ELSE <<"create">>
           log2 == log1 \o (IF fetches THEN <<"fetch">> ELSE <<>>)
           log3 == log2 \o (IF LifeIsExpanded(s2) THEN <<>> ELSE <<"expand_archive">>)
       IN  IF dies
           THEN /\ fout = "ok" /\ eout = "ok" /\ cout = "ok" /\ dout = "ok"
                /\ lf' = LifeCalled(s1, "steal_source", "die", log1)
           ELSE IF fetches /\ fout # "ok"
           THEN /\ fout \in LifeFetchOutcomes(s1)
                /\ eout = "ok" /\ cout = "ok" /\ dout = "ok"
                /\ lf' = LifeCalled(s2, "steal_source", fout, log2)
           ELSE /\ fetches => fout \in LifeFetchOutcomes(s1)
                /\ ~fetches => fout = "ok"
                /\ eout \in LifeExpandOutcomes(s2)
                /\ IF eout # "ok"
                   THEN /\ cout = "ok" /\ dout = "ok"
                        /\ lf' = LifeCalled(s3, "steal_source", "expand_fail", log3)
                   ELSE IF cout # "ok"
                   THEN /\ dout = "ok"
                        /\ lf' = LifeCalled(s3, "steal_source", "copy_fail", log3)
                   ELSE lf' = LifeCalled(LifeDestroyed(s3, dout), "steal_source", dout,
                                         log3 \o <<"destroy">>)
    /\ UNCHANGED <<outsideLife>>

\* cache_mirror(mirror, stats): nothing for a bundle fetcher and for an
\* unstable version the mirror leaves out
CacheMirrorSkips(s) == s.bundle \/ (s.skip_unstable /\ ~s.stable)

\* if os.path.exists(absolute_storage_path)
MutInMirror(s) == FALSE
InMirror(s) == s.stored

\* fout, cout, sout and lout are how fetch(), check(), mirror.store() and
\* mirror.symlink() end where they are reached
LfCacheMirror(fout, cout, sout, lout) ==
    /\ LifeCanCall
    /\ IF CacheMirrorSkips(lf)
       THEN /\ fout = "ok" /\ cout = "ok" /\ sout = "ok" /\ lout = "ok"
            /\ lf' = LifeCalled(lf, "cache_mirror", "ok", <<>>)
       ELSE IF InMirror(lf)
       THEN /\ fout = "ok" /\ cout = "ok" /\ sout = "ok"
            /\ lf' = LifeCalled([lf EXCEPT !.existed = TRUE], "cache_mirror", lout,
                                <<"already_existed", "symlink">>)
       ELSE /\ fout \in LifeFetchOutcomes(lf)
            /\ IF fout # "ok"
               THEN /\ cout = "ok" /\ sout = "ok" /\ lout = "ok"
                    /\ lf' = LifeCalled(lf, "cache_mirror", fout, <<"fetch">>)
               ELSE IF cout # "ok"
               THEN /\ sout = "ok" /\ lout = "ok"
                    /\ lf' = LifeCalled(LifeFetched(lf, fout), "cache_mirror", cout,
                                        <<"fetch", "check">>)
               ELSE IF sout # "ok"
               THEN /\ lout = "ok"
                    /\ lf' = LifeCalled(LifeFetched(lf, fout), "cache_mirror", "store_fail",
                                        <<"fetch", "check", "store">>)
               ELSE lf' = LifeCalled([LifeFetched(lf, fout) EXCEPT !.stored = TRUE,
                                                                   !.added = TRUE],
                                     "cache_mirror", lout,
                                     <<"fetch", "check", "store", "added", "symlink">>)
    /\ UNCHANGED <<outsideLife>>

InitLife ==
    /\ LockInit
    /\ fs = [n \in StageNames |-> AbsentPath]
    /\ fst = FetchIdle
    /\ cm = [p \in Procs |-> [pc |-> "idle"]]
    /\ extRoot = {}
    /\ cev = [op |-> "none"]
    /\ ss = NotUsed /\ rs = NotUsed /\ cs = NotUsed /\ dy = NotUsed /\ sr = NotUsed
    /\ \E keep \in BOOLEAN, dir \in {"absent", "dir", "denied"},
          archive \in BOOLEAN, expanded \in BOOLEAN,
          bundle \in BOOLEAN, stable \in BOOLEAN,
          skip_unstable \in BOOLEAN, stored \in BOOLEAN :
          /\ dir = "absent" => (~archive /\ ~expanded)
          /\ lf = [pc |-> "stage", created |-> FALSE, keep |-> keep, dir |-> dir,
                   archive |-> archive, expanded |-> expanded,
                   bundle |-> bundle, stable |-> stable,
                   skip_unstable |-> skip_unstable, stored |-> stored,
                   added |-> FALSE, existed |-> FALSE,
                   op |-> "none", res |-> "none", log |-> <<>>, n |-> 0,
                   prev |-> [op |-> "none", res |-> "none", log |-> <<>>]]

NextLife ==
    \/ LfCreate
    \/ \E out \in LifeDestroyOutcomes : LfDestroy(out)
    \/ \E out \in {"ok", "FetchError", "crash"} : LfFetch(out)
    \/ \E out \in LifeCheckOutcomes : LfCheck(out)
    \/ \E out \in {"ok", "fail"} : LfExpandArchive(out)
    \/ \E out \in {"ok", "fail"}, left \in BOOLEAN : LfRestage(out, left)
    \/ LfEnter
    \/ \E exc \in BOOLEAN, out \in LifeDestroyOutcomes : LfExit(exc, out)
    \/ \E fout \in {"ok", "FetchError", "crash"}, eout \in {"ok", "fail"},
          cout \in {"ok", "fail"}, dout \in LifeDestroyOutcomes :
          LfStealSource(fout, eout, cout, dout)
    \/ \E fout \in {"ok", "FetchError", "crash"}, cout \in LifeCheckOutcomes,
          sout \in {"ok", "fail"}, lout \in {"ok", "symlink_fail"} :
          LfCacheMirror(fout, cout, sout, lout)

SpecLife == InitLife /\ [][NextLife]_vars

(***************************************************************************)
(* purge(): one process cleans the stage root while stages are in use.     *)
(*                                                                         *)
(* The lock file is one file under the stage root. A byte range a process  *)
(* holds belongs to the file it opened; once the file is unlinked a        *)
(* process that opens the path gets a new file with every range free, so   *)
(* fileLock, the holders on the file now at the path, is reset, while the  *)
(* Lock objects of the earlier holders still count their acquisitions.     *)
(* config:cmake_ext_build is not set here, so the second half of purge()   *)
(* finds nothing to remove.                                                *)
(***************************************************************************)
stage_prefix == "spack-stage-"

LockFileName == ".lock"

\* a generated name and a name the caller chose
PurgeNames == {"spack-stage-a", "y"}

\* str.startswith
StartsWith(s, pre) == Len(s) >= Len(pre) /\ SubSeq(s, 1, Len(pre)) = pre

\* if stage_dir.startswith(stage_prefix) or stage_dir == ".lock"
PurgeSelects(name) == StartsWith(name, stage_prefix) \/ name = LockFileName

\* os.listdir(root)
PurgeListing == {n \in PurgeNames : fs[n].kind # "absent"} \cup {LockFileName}

\* rm: the entries removed; the loop removes every selected entry unless a
\* removal raises, which ends purge() with the rest still there
Purge(p, rm) ==
    /\ rm \subseteq {d \in PurgeListing : PurgeSelects(d)}
    /\ fs' = [n \in PurgeNames |-> IF n \in rm THEN RemoveTree(fs[n]) ELSE fs[n]]
    /\ fileLock' = IF LockFileName \in rm THEN [n \in PurgeNames |-> 0] ELSE fileLock
    /\ ev' = [NoEvent EXCEPT !.op = "purge", !.p = p,
                             !.res = IF rm = {d \in PurgeListing : PurgeSelects(d)}
                                     THEN "ok" ELSE "OSError"]
    /\ UNCHANGED <<stage_locks, lockObjs, stages, scopes>>

InitPurge ==
    /\ stage_locks = [p \in Procs |-> [n \in PurgeNames |-> 0]]
    /\ lockObjs = [p \in Procs |-> <<>>]
    /\ fileLock = [n \in PurgeNames |-> 0]
    /\ stages = <<>>
    /\ scopes = [p \in Procs |-> <<>>]
    /\ ev = NoEvent
    /\ fs = [n \in PurgeNames |-> AbsentPath]
    /\ fst = FetchIdle
    /\ cm = [p \in Procs |-> [pc |-> "idle"]]
    /\ extRoot = {}
    /\ cev = [op |-> "none"]
    /\ ss = NotUsed /\ rs = NotUsed /\ cs = NotUsed /\ dy = NotUsed /\ sr = NotUsed /\ lf = NotUsed

NextPurge ==
    \/ \E p \in Procs, n \in PurgeNames, keep \in BOOLEAN :
          StageInit(p, n, keep, TRUE) /\ UNCHANGED outsideStage
    \/ \E i \in 1..MaxStages :
          StageEnterTimeout(i) /\ UNCHANGED outsideStage
    \/ \E i \in 1..MaxStages :
          StageEnter(i) /\ UNCHANGED outsideStage
    \/ \E p \in Procs, exc \in BOOLEAN, dres \in {"ok", "rm_fail", "chdir_fail"} :
          StageExit(p, exc, dres) /\ UNCHANGED outsideStage
    \/ \E p \in Procs, rm \in SUBSET (PurgeNames \cup {LockFileName}) :
          Purge(p, rm) /\ UNCHANGED outsideStage

SpecPurge == InitPurge /\ [][NextPurge]_vars

(***************************************************************************)
(* Claims about the lock of a stage name and the scoped use.               *)
(***************************************************************************)
LockEnabled(i) == stages[i].lock # 0

\* process p is inside the scoped use of a lock-enabled Stage named n
InScope(p, n) ==
    \E k \in 1..Len(scopes[p]) :
        stages[scopes[p][k]].name = n /\ stages[scopes[p][k]].lock # 0

\* the Stage whose scope p leaves next
Innermost(p) == scopes[p][Len(scopes[p])]

\* C1: in one process, every entry of the name -> lock map, once made, is
\* never replaced or removed, and all Stage objects constructed with locking
\* enabled and the same name hold the same Lock object, the one the map has
\* for that name.
C1_OneLockPerName ==
    [][/\ \A p \in Procs, n \in StageNames :
             stage_locks[p][n] # 0 => stage_locks'[p][n] = stage_locks[p][n]
       /\ \A i \in 1..Len(stages') :
             stages'[i].lock # 0 =>
                 /\ stages'[i].lock = stage_locks'[stages'[i].p][stages'[i].name]
                 /\ \A j \in 1..Len(stages') :
                        (/\ stages'[j].lock # 0
                         /\ stages'[j].p = stages'[i].p
                         /\ stages'[j].name = stages'[i].name)
                        => stages'[j].lock = stages'[i].lock]_vars

C1_Witness ==
    \E i, j \in 1..Len(stages) :
        /\ i < j
        /\ stages[i].p = stages[j].p
        /\ stages[i].name = stages[j].name
        /\ LockEnabled(i) /\ LockEnabled(j)
        /\ stages[i].lock = stages[j].lock

\* C2: for every stage name, at most one process at a time is inside the
\* scoped use of a lock-enabled Stage with that name.
C2_MutualExclusion ==
    \A n \in StageNames : \A p, q \in Procs : InScope(p, n) /\ InScope(q, n) => p = q

\* a competitor has just failed at the bounded wait while the holder is inside
C2_Witness ==
    /\ ev.op = "enter" /\ ev.res = "LockTimeoutError"
    /\ \E q \in Procs : q # ev.p /\ InScope(q, stages[ev.i].name)
    /\ ~InScope(ev.p, stages[ev.i].name)

\* C3: a scope exit destroys the stage directory (and clears created) if and
\* only if no exception left the body and keep is false: then, when the exit
\* returns, the directory is gone and created is false; in every other case
\* (the body raised, whatever keep is, or keep is true) the exit returns and
\* leaves the entry at the stage path and created as they were.
C3_ExitDestroysIffCleanAndNotKept ==
    [][\A p \in Procs, exc \in BOOLEAN, dres \in {"ok", "rm_fail", "chdir_fail"} :
          StageExit(p, exc, dres) =>
              LET i == Innermost(p)
                  n == stages[i].name
              IN  IF ~exc /\ ~stages[i].keep
                  THEN ev'.res = "ok" => fs'[n].kind = "absent" /\ ~stages'[i].created
                  ELSE /\ ev'.res = "ok"
                       /\ fs'[n] = fs[n]
                       /\ stages'[i].created = stages[i].created]_vars

\* the body raised in the scope of a Stage with keep false: the directory is
\* still there after the exit
C3_Witness ==
    /\ ev.op = "exit" /\ ev.res = "ok" /\ ev.exc
    /\ ~stages[ev.i].keep
    /\ stages[ev.i].created
    /\ fs[stages[ev.i].name].kind = "dir"

\* C4: every scope exit of a lock-enabled Stage gives back the write
\* acquisition its scope entry made, whether the body raised or not and
\* whether the destroy step of the exit failed or not.
C4_ExitAlwaysReleases ==
    [][\A p \in Procs, exc \in BOOLEAN, dres \in {"ok", "rm_fail", "chdir_fail"} :
          (StageExit(p, exc, dres) /\ LockEnabled(Innermost(p))) =>
              LET l == stages[Innermost(p)].lock
              IN  /\ lockObjs'[p][l].writes = lockObjs[p][l].writes - 1
                  /\ lockObjs'[p][l].writes = 0 => fileLock'[lockObjs[p][l].name] # p]_vars

Candidates(s) ==
    StaticFetchers(s.cfg, s.mirror_only)
        \o (IF SearchAllowed(s) THEN DynamicFetchers(s.cfg) ELSE <<>>)

Attempted(s, j) == s.attempts[j].f

LastAttempt(s) == s.attempts[Len(s.attempts)]

\* C6: fetch() attempts its candidates one at a time in list order, each at
\* most once, and goes on only past failed ones; when it returns normally the
\* last attempt is the one that succeeded, every attempt before it failed, no
\* later candidate was attempted and the active fetcher is the successful
\* candidate. In particular a mirror candidate that succeeds ends the fetch
\* without error with the mirror-derived fetcher active, the default fetcher
\* behind it not being attempted.
C6_FirstSuccessWins ==
    fst.op = "fetch" =>
        /\ Len(fst.attempts) <= Len(Candidates(fst))
        /\ \A j \in 1..Len(fst.attempts) : Attempted(fst, j) = Candidates(fst)[j]
        /\ \A j \in 1..(Len(fst.attempts) - 1) : fst.attempts[j].out \in Recoverable
        /\ \A j, k \in 1..Len(fst.attempts) : j # k => Attempted(fst, j) # Attempted(fst, k)
        /\ (fst.pc = "done" /\ fst.res = "ok") =>
               /\ fst.attempts # <<>>
               /\ LastAttempt(fst).out = "ok"
               /\ fst.fetcher = LastAttempt(fst).f
        /\ (\E j \in 1..Len(fst.attempts) :
                fst.attempts[j].out = "ok" /\ Attempted(fst, j).kind = "mirror") =>
               /\ fst.pc = "done" /\ fst.res = "ok"
               /\ fst.fetcher.kind = "mirror"

\* a mirror fetcher succeeded after an earlier candidate failed, with the
\* default fetcher in the list and not attempted
C6_Witness ==
    /\ fst.op = "fetch" /\ fst.pc = "done" /\ fst.res = "ok"
    /\ ~fst.mirror_only
    /\ fst.fetcher.kind = "mirror"
    /\ Len(fst.attempts) >= 2
    /\ \A j \in 1..Len(fst.attempts) : Attempted(fst, j).kind # "default"

\* every candidate of the fetch was attempted and failed with an error the
\* loop recovers from (vacuously so when there is no candidate)
AllFailed(s) ==
    /\ Len(s.attempts) = Len(Candidates(s))
    /\ \A j \in 1..Len(s.attempts) : s.attempts[j].out \in Recoverable

\* C7: fetch() raises the fetch error exactly when every candidate failed (or
\* there was none); the error carries the caller's message, or the default
\* message when the caller gave none, and the active fetcher is then the
\* default fetcher again, whichever candidate was tried last.
C7_AllFailedRaisesAndResets ==
    (fst.op = "fetch" /\ fst.pc = "done") =>
        /\ fst.res = "FetchError" <=> AllFailed(fst)
        /\ fst.res = "FetchError" =>
               /\ fst.fetcher = DefaultFetcher(fst.cfg)
               /\ fst.msg \in {fst.err_msg, DefaultMsg}
               /\ fst.err_msg = "custom message" => fst.msg = fst.err_msg
               /\ fst.err_msg = NoneMsg => fst.msg = DefaultMsg

\* all failed and the candidate tried last was not the default fetcher
C7_Witness ==
    /\ fst.op = "fetch" /\ fst.pc = "done" /\ fst.res = "FetchError"
    /\ fst.attempts # <<>>
    /\ LastAttempt(fst).f.kind = "dynamic"
    /\ fst.err_msg = "custom message"
    /\ fst.fetcher = DefaultFetcher(fst.cfg)

\* C8: with checksum verification enabled, check() raises a checksum error
\* whenever the fetched archive does not match the digest declared for it.
C8_MismatchAlwaysRaises ==
    (/\ fst.op = "check"
     /\ fst.cfg.checksum
     /\ fst.fetcher.digest
     /\ fst.archive = "mismatch")
    => fst.res = "ChecksumError"

\* C9: with checksum verification disabled, check() does not call the active
\* fetcher's check and does not raise, whatever the active fetcher and the
\* archive's digest.
C9_DisabledNeverChecks ==
    (fst.op = "check" /\ ~fst.cfg.checksum) => (~fst.called /\ fst.res = "ok")

\* check() ran with verification disabled on a mismatching archive whose
\* fetcher carries a digest and is not excused as a mirror substitute
C9_Witness ==
    /\ fst.op = "check" /\ ~fst.cfg.checksum
    /\ fst.fetcher.digest /\ fst.archive = "mismatch"
    /\ ~fst.warned
    /\ fst.fetcher.kind = "mirror"

(***************************************************************************)
(* Claims about the external build directory allocator.                    *)
(***************************************************************************)
\* C10: no two stages hold the same external directory at the same time, and
\* every directory the allocator returns was made by the exclusive mkdir of
\* the process it is returned to.
C10_ExclusiveAllocation ==
    /\ \A p \in Procs : cm[p].pc = "done" => cm[p].made
    /\ \A p, q \in Procs :
          (p # q /\ cm[p].pc = "done" /\ cm[q].pc = "done") => cm[p].remote # cm[q].remote

\* C11: when the 200 attempts of the retry loop are used up the allocation
\* fails with an error: the allocator returns a directory only after its own
\* mkdir of it succeeded.
C11_ExhaustedBudgetFails ==
    [][\A p \in Procs, out \in {"ok", "link_fail"} :
          (CmReturn(p, out) /\ cm[p].pc # "made")
             => (cev'.res # "linked" /\ cm'[p].remote = NoName)]_vars

\* C13: a create() that fails in the allocation or in the making of the link
\* re-raises that failure and leaves no external directory of this call,
\* remote_stage unset and created false, whether it failed before a
\* directory was allocated or after, at the link.
C13_FailedCreateRollsBack ==
    [][\A p \in Procs :
          (\/ CmCompute(p, "root_fail")
           \/ CmMkdir(p, "oserror")
           \/ CmReturn(p, "link_fail"))
             => /\ cev'.res = "reraise"
                /\ cm'[p].remote = NoName
                /\ ~cm'[p].created
                /\ (cm[p].pc = "made" => cm[p].sub \notin extRoot')]_vars

\* C14: after restage() completes on a created stage the previous external
\* directory is gone, remote_stage is set to a new one and the link points
\* to it.
C14_RestageReallocates ==
    [][\A p \in Procs :
          (cm[p].created /\ CmRestage(p, "ok", "ok", "ok"))
             => /\ cm'[p].remote # NoName
                /\ cm'[p].link = cm'[p].remote
                /\ (cm[p].remote # NoName => cm[p].remote \notin extRoot')]_vars

\* C15: whenever remote_stage is set and created is true, the link exists
\* and points to remote_stage.
C15_LinkFollowsRemote ==
    \A p \in Procs :
       (cm[p].remote # NoName /\ cm[p].created) => cm[p].link = cm[p].remote

\* C16: a destroy() that completes on a stage with an external directory
\* leaves no link, no external directory, remote_stage unset and created
\* false; with no external directory it leaves the external root as it was
\* and does the base destruction only.
C16_DestroyRemovesRemote ==
    [][\A p \in Procs :
          CmDestroy(p, "ok", "ok")
             => /\ cm'[p].link = NoName
                /\ cm'[p].remote = NoName
                /\ ~cm'[p].created
                /\ IF cm[p].remote # NoName
                   THEN cm[p].remote \notin extRoot'
                   ELSE extRoot' = extRoot]_vars

C16_Witness ==
    /\ cev.res = "destroyed_remote"
    /\ \E p \in Procs : cm[p].pc = "idle" /\ ~cm[p].created /\ cm[p].link = NoName
    /\ \E q \in Procs : cm[q].pc = "done"

\* the number a name over "a".."z" stands for, "a" being 1 and "z" 26
RECURSIVE NameValue(_)
NameValue(c) == IF c = <<>> THEN 0 ELSE 26 * NameValue(Front(c)) + (c[Len(c)] - 96)

IsLetterName(c) == \A i \in 1..Len(c) : c[i] \in Letters

\* C12: the allocator returns "a" for an empty listing and else the successor
\* of the greatest name by length, then letters: a name greater than every
\* name of the listing, hence none of them, and over "a".."z" the next value
\* of a base-26 counter with carry ({a..z} gives "aa", {az} "ba", {zz} "aaa").
C12_NextNameIsSuccessor ==
    [][\A p \in Procs :
          (CmCompute(p, "ok") /\ cm'[p].pc = "mkdir")
             => LET name == cm'[p].sub
                IN  /\ extRoot = {} => name = <<97>>
                    /\ \A y \in extRoot : KeyLess(y, name)
                    /\ name \notin extRoot
                    /\ (extRoot # {} /\ \A y \in extRoot : IsLetterName(y))
                          => /\ IsLetterName(name)
                             /\ \E y \in extRoot : NameValue(name) = NameValue(y) + 1
                             /\ \A y \in extRoot : NameValue(y) < NameValue(name)
                    /\ extRoot = OneLetterNames => name = <<97, 97>>
                    /\ extRoot = {<<97, 122>>} => name = <<98, 97>>
                    /\ extRoot = {<<122, 122>>} => name = <<97, 97, 97>>]_vars

C12_Witness ==
    /\ extRoot = OneLetterNames
    /\ \E p \in Procs : cm[p].pc = "mkdir" /\ cm[p].sub = <<97, 97>>

\* C17: after steal_source(dest) completes, dest has every entry of the
\* expanded source tree, the hidden ones included, and the archive file if
\* one was retained, and the stage directory is gone with created false,
\* whatever keep is and whatever state the stage was in before.
C17_StealCopiesAllAndDestroys ==
    ss.res = "stolen"
       => /\ ss.stolen.tree \subseteq ss.dest
          /\ ss.stolen.archive => ArchiveName \in ss.dest
          /\ ss.destDir
          /\ ~ss.dir
          /\ ~ss.created

C17_Witness ==
    /\ ss.res = "stolen"
    /\ ss.keep
    /\ ss.stolen.tree = SourceEntries
    /\ ss.stolen.archive
    /\ ~ss.stolen.created
    /\ ~ss.stolen.expanded

PlacementDests == {rs.placement[i].dest : i \in 1..Len(rs.placement)}

\* C18 as stated: a placement destination that exists when expand_archive()
\* or restage() is called is the same after the call, with all that is
\* below it.
C18_ExistingDestinationUnchanged ==
    \A d \in PlacementDests :
       PathExists(rs.before, d) => Subtree(rs.root, d) = Subtree(rs.before, d)

\* no other destination of the placement lies inside d
NoDestinationInside(d) ==
    \A e \in PlacementDests : e = d \/ ~IsPrefix(d, e)

\* C18, corrected: expand_archive() and restage() overwrite nothing, every
\* path that existed keeps its content; an existing destination is the same
\* after the call, with all below it, unless another destination of the
\* placement lies inside it; and a call after a completed placement leaves
\* the tree as it was.
C18_PlacementNeverOverwrites ==
    /\ rs.before \subseteq rs.root
    /\ \A e1, e2 \in rs.root : e1.path = e2.path => e1 = e2
    /\ \A d \in PlacementDests :
          (PathExists(rs.before, d) /\ NoDestinationInside(d))
             => Subtree(rs.root, d) = Subtree(rs.before, d)
    /\ (rs.res = "placed" /\ \A d \in PlacementDests : PathExists(rs.before, d))
          => rs.root = rs.before

C18_Witness ==
    /\ rs.res = "placed"
    /\ rs.op = "expand_archive"
    /\ rs.root = rs.before
    /\ \E e \in rs.root : e.content \notin {OldContent, MadeContent}
    /\ \E e \in rs.root : e.content = OldContent /\ e.path \in PlacementDests

IsEnter(e) == e.op = "enter"

IsExit(e) == e.op = "exit"

\* C19: scoped entry enters the members in order, first to last, and scoped
\* exit exits them in reverse order, last to first: member 0 is entered
\* first and exited last.
C19_EnterInOrderExitReversed ==
    LET n == Len(cs.members)
        enters == SelectSeq(cs.log, IsEnter)
        exits == SelectSeq(cs.log, IsExit)
    IN  /\ cs.log = enters \o exits
        /\ \A j \in 1..Len(enters) : enters[j].i = j
        /\ \A j \in 1..Len(exits) : exits[j].i = n + 1 - j
        /\ cs.res = "entered" => Len(enters) = n
        /\ cs.res = "exited" => (Len(enters) = n /\ Len(exits) = n /\ cs.log[2 * n].i = 1)

C19_Witness ==
    /\ cs.res = "exited"
    /\ Len(cs.members) = 3
    /\ cs.log = <<[op |-> "enter", i |-> 1], [op |-> "enter", i |-> 2],
                  [op |-> "enter", i |-> 3], [op |-> "exit", i |-> 3],
                  [op |-> "exit", i |-> 2], [op |-> "exit", i |-> 1]>>

\* C20: source_path, expanded, path, archive_file, build_directory, contains
\* and path_rel_to_stage of a composite are what member 0 answers, whatever
\* the other members are.
C20_QueriesAnsweredByFirst ==
    [][\A q \in Queries, arg \in QueryArgs :
          CsQuery(q, arg)
             => cs'.answer = [q |-> q, val |-> MemberAnswer(cs.members[1], q, arg)]]_vars

C20_Witness ==
    /\ Len(cs.members) = 3
    /\ cs.answer = [q |-> "expanded", val |-> <<"True">>]
    /\ cs.members[1].expanded
    /\ ~cs.members[2].expanded
    /\ ~cs.members[3].expanded

(***************************************************************************)
(* Claims about DIYStage.                                                  *)
(***************************************************************************)
\* C21: for a DIYStage, restage() always fails with RestageError, and after
\* any sequence of fetch, check, expand_archive, create, destroy,
\* cache_local and scope entry/exit calls the directory it wraps still
\* exists unchanged and created is true.
C21_DIYNeverChangesDirectory ==
    dy.pc = "stage" =>
        /\ dy.dir = dy.before
        /\ dy.dir.kind = "dir"
        /\ dy.created
        /\ (dy.op = "restage" => dy.res = "RestageError")
        /\ (dy.op # "restage" => dy.res = "ok")

C21_Witness ==
    /\ dy.pc = "stage"
    /\ dy.op = "destroy"
    /\ dy.n = MaxCalls
    /\ dy.dir.content # {}

(***************************************************************************)
(* Claims about the stage root.                                            *)
(***************************************************************************)
\* C22: the stage root is write-once: once get_stage_root() has returned a
\* path, every later call returns that same path without evaluating the
\* candidates again, whatever the configuration and the filesystem have
\* become in between.
C22_StageRootWriteOnce ==
    [][/\ sr.root # NoRoot => sr'.root = sr.root
       /\ \A outs \in [RootPaths -> RootCreateOutcomes] :
             GetStageRoot(outs) /\ sr.first # NoRoot =>
                 /\ sr'.res = "ok"
                 /\ sr'.ret = sr.first
                 /\ ~sr'.evaluated
                 /\ sr'.rfs = sr.rfs]_vars

\* a call answered from the cache although the candidates, evaluated now,
\* would give another root
C22_Witness ==
    /\ sr.n >= 2
    /\ sr.res = "ok"
    /\ ~sr.evaluated
    /\ sr.ret = sr.first
    /\ sr.rfs[sr.ret] # "dir"
    /\ \A outs \in [RootPaths -> RootCreateOutcomes] :
          FirstAccessiblePath(ResolvePaths(sr.config.val, sr.tmp), 1, sr.rfs, outs).path # sr.ret

(***************************************************************************)
(* Claims about the order of the lock and the directory in a scope.        *)
(***************************************************************************)
HoldsLock(p, i) ==
    /\ lockObjs[p][stages[i].lock].writes > 0
    /\ fileLock[stages[i].name] = p

\* C23: with the lock enabled, entry creates the stage directory only once
\* the write lock is acquired, exit destroys (when it destroys) while the
\* lock is still held, and an entry that cannot get the lock fails with the
\* timeout and calls no create().
C23_DirectoryChangesUnderLock ==
    [][/\ \A i \in 1..Len(stages) :
             StageEnter(i) /\ stages[i].lock # 0 =>
                 /\ CanAcquire(stages[i].p, stages[i].lock)
                 /\ lockObjs'[stages[i].p][stages[i].lock].writes
                        = lockObjs[stages[i].p][stages[i].lock].writes + 1
                 /\ fileLock'[stages[i].name] = stages[i].p
       /\ \A i \in 1..Len(stages) :
             StageEnterTimeout(i) =>
                 /\ ev'.res = "LockTimeoutError"
                 /\ fs' = fs /\ stages' = stages /\ scopes' = scopes
                 /\ fileLock' = fileLock /\ lockObjs' = lockObjs
       /\ \A i \in 1..Len(stages) :
             /\ stages[i].lock # 0
             /\ ~CanAcquire(stages[i].p, stages[i].lock)
             /\ ev'.op = "enter" /\ ev'.i = i
             => ev'.res = "LockTimeoutError" /\ fs' = fs /\ stages' = stages
       /\ \A p \in Procs, exc \in BOOLEAN, dres \in {"ok", "rm_fail", "chdir_fail"} :
             /\ StageExit(p, exc, dres)
             /\ stages[Innermost(p)].lock # 0
             /\ ExitDestroys(exc, stages[Innermost(p)].keep)
             => HoldsLock(p, Innermost(p))]_vars

\* an entry that timed out on a name whose directory another process made
\* and holds, and that created nothing
C23_Witness ==
    /\ ev.op = "enter"
    /\ ev.res = "LockTimeoutError"
    /\ ~stages[ev.i].created
    /\ fileLock[stages[ev.i].name] \notin {0, ev.p}
    /\ fs[stages[ev.i].name].kind = "dir"

(***************************************************************************)
(* Claims about the order of the candidates of fetch().                    *)
(***************************************************************************)
\* the candidates fetch() builds from the mirrors and the fetch cache
MirrorCandidates(cfg) ==
    {MirrorFetcher(cfg, m, j) : m \in 1..cfg.mirrors, j \in 1..cfg.paths}

CacheCandidates(cfg) ==
    IF cfg.cachable THEN {CacheFetcher(cfg, j) : j \in 1..cfg.paths} ELSE {}

\* candidate f was attempted before the k-th attempt, and failed
FailedBefore(s, f, k) ==
    \E i \in 1..(k - 1) : s.attempts[i].f = f /\ s.attempts[i].out \in Recoverable

\* C24 as stated: when mirror_only is false the default fetcher is the first
\* candidate fetch() attempts, and a mirror-derived fetcher is attempted
\* only after the default fetcher has failed.
C24_DefaultAttemptedFirst ==
    (fst.op = "fetch" /\ ~fst.mirror_only /\ fst.attempts # <<>>) =>
        /\ fst.attempts[1].f = DefaultFetcher(fst.cfg)
        /\ \A k \in 1..Len(fst.attempts) :
              fst.attempts[k].f.kind = "mirror" =>
                  FailedBefore(fst, DefaultFetcher(fst.cfg), k)

\* C24, corrected: when mirror_only is false the default fetcher is attempted
\* only after every cache and every mirror candidate has been attempted and
\* has failed; it is the first attempt only when there is no such candidate,
\* and no mirror-derived or cache fetcher is attempted after it.
C24_DefaultAttemptedAfterMirrors ==
    fst.op = "fetch" =>
        \A k \in 1..Len(fst.attempts) :
            fst.attempts[k].f = DefaultFetcher(fst.cfg) =>
                /\ ~fst.mirror_only
                /\ \A f \in MirrorCandidates(fst.cfg) \cup CacheCandidates(fst.cfg) :
                      FailedBefore(fst, f, k)
                /\ \A i \in (k + 1)..Len(fst.attempts) :
                      fst.attempts[i].f.kind \notin {"mirror", "cache"}
                /\ (k = 1 <=> MirrorCandidates(fst.cfg) \cup CacheCandidates(fst.cfg) = {})

\* the default fetcher succeeded as the last of at least three attempts,
\* the earlier ones being cache and mirror candidates that failed
C24_Witness ==
    /\ fst.op = "fetch" /\ fst.pc = "done" /\ fst.res = "ok"
    /\ ~fst.mirror_only
    /\ Len(fst.attempts) >= 3
    /\ LastAttempt(fst).f = DefaultFetcher(fst.cfg)
    /\ fst.attempts[1].f.kind = "cache"
    /\ fst.attempts[Len(fst.attempts) - 1].f.kind = "mirror"

\* the place of a candidate in the order of C25
KindRank(f) ==
    IF f.kind = "cache" THEN 1
    ELSE IF f.kind = "mirror" THEN 2
    ELSE IF f.kind = "default" THEN 3
    ELSE 4

Precedes(f, g) ==
    \/ KindRank(f) < KindRank(g)
    \/ /\ f.kind = "cache" /\ g.kind = "cache" /\ f.path < g.path
    \/ /\ f.kind = "mirror" /\ g.kind = "mirror"
       /\ (f.m < g.m \/ (f.m = g.m /\ f.path < g.path))
    \/ /\ f.kind = "dynamic" /\ g.kind = "dynamic" /\ f.m < g.m

\* C25: with mirror paths configured, fetch() attempts first the cache
\* fetchers, one per mirror path and only if the default fetcher is
\* cachable, then the mirror fetchers in the order their URLs were
\* enumerated (mirror by mirror, path by path), then the default fetcher.
C25_CacheThenMirrorsThenDefault ==
    (fst.op = "fetch" /\ fst.cfg.paths > 0) =>
        /\ \A i, k \in 1..Len(fst.attempts) :
              i < k => Precedes(fst.attempts[i].f, fst.attempts[k].f)
        /\ \A k \in 1..Len(fst.attempts) :
              /\ fst.attempts[k].f.kind = "cache" => fst.cfg.cachable
              /\ fst.attempts[k].f.kind \in {"cache", "mirror"} =>
                    /\ fst.attempts[k].f.path \in 1..fst.cfg.paths
                    /\ fst.attempts[k].f.digest = fst.cfg.digest
              /\ \A f \in MirrorCandidates(fst.cfg) \cup CacheCandidates(fst.cfg) :
                    Precedes(f, fst.attempts[k].f) => FailedBefore(fst, f, k)

\* two cache fetchers, then the four mirror fetchers of two mirrors and two
\* paths, then the default fetcher were attempted
C25_Witness ==
    /\ fst.op = "fetch"
    /\ fst.cfg.paths = 2 /\ fst.cfg.mirrors = 2 /\ fst.cfg.cachable
    /\ Len(fst.attempts) = 7
    /\ fst.attempts[2].f = CacheFetcher(fst.cfg, 2)
    /\ fst.attempts[4].f = MirrorFetcher(fst.cfg, 1, 2)
    /\ fst.attempts[5].f = MirrorFetcher(fst.cfg, 2, 1)
    /\ fst.attempts[7].f = DefaultFetcher(fst.cfg)

\* C26: the search function is called at most once in a fetch, only after
\* every candidate of the list (cache, mirror, default) was attempted and
\* failed, never after a success, and the fetchers it gives are attempted
\* after all others.
C26_SearchIsLazyAndLast ==
    /\ (fst.op = "fetch" /\ fst.searched) =>
          /\ fst.cfg.search /\ ~fst.mirror_only
          /\ \A f \in MirrorCandidates(fst.cfg) \cup CacheCandidates(fst.cfg)
                        \cup {DefaultFetcher(fst.cfg)} :
                FailedBefore(fst, f, Len(fst.attempts) + 1)
          /\ \A k \in 1..Len(fst.attempts) :
                fst.attempts[k].f.kind # "dynamic" => fst.attempts[k].out \in Recoverable
          /\ Len(fst.fetchers) = Len(StaticFetchers(fst.cfg, FALSE)) + fst.cfg.ndyn
    /\ fst.op = "fetch" =>
          \A k \in 1..Len(fst.attempts) :
              fst.attempts[k].f.kind = "dynamic" =>
                  /\ fst.searched
                  /\ \A i \in 1..Len(fst.attempts) :
                        fst.attempts[i].f.kind # "dynamic" => i < k

\* the search function was called after a cache, a mirror and the default
\* fetcher failed, and the fetcher it gave succeeded
C26_Witness ==
    /\ fst.op = "fetch" /\ fst.pc = "done" /\ fst.res = "ok"
    /\ fst.searched
    /\ Len(fst.attempts) >= 4
    /\ LastAttempt(fst).f.kind = "dynamic"

\* what C27 says of a state of a fetch with mirror_only true
MirrorOnlyState ==
    (fst.op = "fetch" /\ fst.mirror_only) =>
        /\ ~fst.searched
        /\ \A k \in 1..Len(fst.attempts) : fst.attempts[k].f.kind \in {"cache", "mirror"}
        /\ \A k \in 1..Len(fst.fetchers) : fst.fetchers[k].kind \in {"cache", "mirror"}
        /\ (/\ fst.pc = "done"
            /\ \A k \in 1..Len(fst.attempts) : fst.attempts[k].out \in Recoverable)
           => fst.res = "FetchError"

\* C27: with mirror_only true, fetch() never attempts the default fetcher
\* and never calls the search function; when no mirror or cache candidate
\* succeeds, and when there is no candidate at all, it raises the fetch
\* error.
C27_MirrorOnlySkipsDefaultAndSearch ==
    [][/\ MirrorOnlyState'
       /\ (/\ fst.pc = "loop" /\ fst.mirror_only
           /\ \A f \in MirrorCandidates(fst.cfg) \cup CacheCandidates(fst.cfg) :
                 FailedBefore(fst, f, Len(fst.attempts) + 1))
          => (fst'.pc = "done" /\ fst'.res = "FetchError")]_vars

\* a mirror-only fetch of a Stage without mirror paths and with a search
\* function that would give a fetcher: nothing was attempted, the fetch
\* error was raised
C27_Witness ==
    /\ fst.op = "fetch" /\ fst.mirror_only
    /\ fst.pc = "done" /\ fst.res = "FetchError"
    /\ fst.cfg.search /\ fst.cfg.ndyn > 0
    /\ fst.attempts = <<>>
    /\ ~fst.searched

\* C28: with checksum verification enabled, check() gives the warning in
\* place of the verification exactly when the active fetcher is derived
\* from a mirror (a mirror or cache fetcher) and the default fetcher has no
\* digest; with any other active fetcher (the default one, a cache or mirror
\* fetcher with the default's digest, one the search function gave) it
\* calls the active fetcher's check.
C28_WarnsOnlyForDigestlessMirror ==
    (fst.op = "check" /\ fst.cfg.checksum) =>
        /\ fst.warned <=> (fst.fetcher.kind \in {"mirror", "cache"} /\ ~fst.cfg.digest)
        /\ fst.called <=> ~fst.warned

(***************************************************************************)
(* Claims about the names the external build directory allocator tries.    *)
(***************************************************************************)
\* C29: after an exclusive mkdir failed because the name exists, the next
\* attempt uses a name computed anew from the current listing of the
\* external root, not the same name again.
C29_CollisionRecomputesName ==
    [][\A p \in Procs :
          (CmMkdir(p, "ok") /\ cm[p].sub \in extRoot) =>
              /\ cm'[p].sub = NextOpenSubdir(extRoot')
              /\ cm'[p].sub # cm[p].sub]_vars

\* C30: the names of the external build directories made in one external
\* root are strictly increasing in the order (length, then lexicographic),
\* whatever allocations and destroys are interleaved, so that a name once
\* allocated is never handed out again.
C30_NamesStrictlyIncrease ==
    [][\A p \in Procs :
          (CmMkdir(p, "ok") /\ cm[p].sub \notin extRoot /\ cev.last # NoName) =>
              KeyLess(cev.last, cm[p].sub)]_vars

\* C30, corrected: a name the allocator computes is strictly greater, in
\* the order (length, then lexicographic), than every name the external
\* root holds when it is computed, and is not the name of a directory
\* there; names do not increase over the destroys, and the name of a
\* directory that was destroyed can be handed out again.
C30_NameAboveCurrentListing ==
    [][\A p \in Procs :
          (cm'[p].pc = "mkdir" /\ cm[p].pc # "mkdir") =>
              /\ cm'[p].sub \notin extRoot
              /\ \A y \in extRoot \cup extRoot' : KeyLess(y, cm'[p].sub)]_vars

\* the name computed for an allocation is the name of the directory made
\* last, which is no longer in the external root
C30_Witness ==
    \E p \in Procs :
        /\ cm[p].pc = "mkdir" /\ cm[p].attempts = 0
        /\ cev.last = cm[p].sub
        /\ cm[p].sub \notin extRoot
        /\ \A q \in Procs \ {p} : cm[q].remote = NoName /\ cm[q].sub = NoName

(***************************************************************************)
(* Claims about CMakeBuildStage.create and the external directory owned.   *)
(***************************************************************************)
\* C31: create() allocates an external directory only when the link in the
\* stage does not resolve: on a stage already created it allocates nothing,
\* on a fresh stage whose link resolves it takes the link's target as
\* remote_stage, and an allocation is begun and a directory made only by a
\* stage that has no external directory.
C31_CreateAllocatesOnlyWithoutTarget ==
    [][\A p \in Procs :
          /\ \A out \in CreateOutcomes :
                (CmCompute(p, out) /\ cm[p].created) =>
                    (cm' = cm /\ extRoot' = extRoot /\ cev'.n = cev.n)
          /\ \A out \in CreateOutcomes :
                (/\ CmCompute(p, out) /\ ~cm[p].created
                 /\ cm[p].link # NoName /\ cm[p].link \in extRoot) =>
                    /\ cm'[p].remote = cm[p].link
                    /\ cm'[p].created /\ cm'[p].pc = "done"
                    /\ extRoot' = extRoot /\ cev'.n = cev.n
          /\ (cm'[p].pc = "mkdir" /\ cm[p].pc # "mkdir") =>
                /\ ~cm[p].created
                /\ ~(cm[p].link # NoName /\ cm[p].link \in extRoot)
                /\ cm[p].remote = NoName
          /\ (cm'[p].pc = "made" /\ cm[p].pc # "made") => cm[p].remote = NoName]_vars

\* a fresh stage object took over the directory its link points to, made by
\* an earlier object of the stage
C31_Witness ==
    \E p \in Procs :
        /\ cev.res = "pickup"
        /\ cm[p].pc = "done" /\ cm[p].created
        /\ cm[p].remote = cm[p].link
        /\ cm[p].remote \in extRoot
        /\ cev.n = 1

(***************************************************************************)
(* Claims about the keep flag and the failures of a StageComposite.        *)
(***************************************************************************)
\* C32: on the exit of a StageComposite every member's keep is overwritten
\* with the composite's keep (false when the composite has none) before the
\* member is exited, so that on a normal exit a member is destroyed exactly
\* when the composite's keep is false, whatever keep it was constructed
\* with.
C32_CompositeKeepDecides ==
    [][\A out \in {"ok", "fail"} :
          CsExitMember(out) =>
              LET i == Len(cs.members) + 1 - cs.idx IN
              /\ cs'.members[i].keep = (cs.keep = "True")
              /\ (out = "ok" /\ ~cs.exc) =>
                    (cs'.members[i].created <=> (cs.keep = "True"))
              /\ (out = "ok" /\ cs.exc) =>
                    cs'.members[i].created = cs.members[i].created]_vars

\* a member constructed with keep true was destroyed by the normal exit of a
\* composite that has no keep, and one constructed with keep false was kept
\* by the exit of a composite with keep true
C32_Witness ==
    /\ cs.res = "exited" /\ ~cs.exc
    /\ Len(cs.members) >= 2
    /\ \/ /\ cs.keep = "unset"
          /\ \E i \in 1..Len(cs.members) : cs.members[i].given /\ ~cs.members[i].created
          /\ \A i \in 1..Len(cs.members) : ~cs.members[i].created
       \/ /\ cs.keep = "True"
          /\ \E i \in 1..Len(cs.members) : ~cs.members[i].given /\ cs.members[i].created

\* candidate path qualifies in a call: it exists and is accessible, or it
\* does not exist and create_stage_root(path) succeeds
Qualifies(path, outs) ==
    \/ sr.rfs[path] = "dir"
    \/ sr.rfs[path] = "absent" /\ outs[path] = "ok"

\* C33: get_stage_root() takes the first candidate, in the order of the
\* configuration, that exists and is accessible or does not exist and is
\* created; a candidate that exists without access, or whose creation
\* fails, is passed over; when no candidate qualifies the call fails with
\* StageError and the cache stays unset, so that a later call evaluates the
\* candidates again.
C33_FirstQualifyingCandidate ==
    [][\A outs \in [RootPaths -> RootCreateOutcomes] :
          (GetStageRoot(outs) /\ sr.root = NoRoot) =>
              LET resolved == ResolvePaths(sr.config.val, sr.tmp)
                  good == {i \in 1..Len(resolved) : Qualifies(resolved[i], outs)}
              IN  /\ sr'.evaluated
                  /\ IF good = {}
                     THEN /\ sr'.res = "StageError"
                          /\ sr'.root = NoRoot
                     ELSE \E i \in good :
                             /\ \A j \in good : i <= j
                             /\ sr'.res = "ok"
                             /\ sr'.ret = resolved[i]
                             /\ sr'.root = resolved[i]
                             /\ sr'.rfs[resolved[i]] = "dir"
                             /\ \A j \in (i + 1)..Len(resolved) :
                                   sr'.rfs[resolved[j]] = sr.rfs[resolved[j]]]_vars

\* the second of two candidates was taken by a call that came after a call
\* that failed with StageError: the first candidate exists without access
C33_Witness ==
    /\ sr.n = 2
    /\ sr.res = "ok" /\ sr.evaluated
    /\ Len(sr.config.val) = 2
    /\ sr.ret = ResolvePath(sr.config.val[2], sr.tmp)
    /\ sr.rfs[ResolvePath(sr.config.val[1], sr.tmp)] = "denied"

(***************************************************************************)
(* Claims about the calls of a base Stage.                                 *)
(***************************************************************************)
\* C34: expand_archive() does nothing when the source directory exists: it
\* does not call the fetcher's expand, so a second call after an expansion
\* that succeeded changes nothing; when the directory is absent it calls
\* the active fetcher's expand exactly once.
C34_ExpandOnlyWhenAbsent ==
    [][\A out \in {"ok", "fail"} :
          LfExpandArchive(out) =>
              IF lf.expanded
              THEN /\ lf'.log = <<>>
                   /\ lf'.res = "ok"
                   /\ lf'.expanded /\ lf'.archive = lf.archive
                   /\ lf'.dir = lf.dir /\ lf'.created = lf.created
              ELSE /\ lf'.log = <<"fetcher.expand">>
                   /\ lf'.expanded <=> out = "ok"]_vars

\* a second expand_archive(), right after one that called the fetcher's
\* expand and succeeded, called nothing
C34_Witness ==
    /\ lf.op = "expand_archive" /\ lf.res = "ok" /\ lf.log = <<>>
    /\ lf.prev.op = "expand_archive" /\ lf.prev.res = "ok"
    /\ lf.prev.log = <<"fetcher.expand">>
    /\ lf.expanded

\* C35: cache_mirror() stores into the mirror and records "added" only
\* after fetch() and then check() have both ended without error in that
\* call; when the target is in the mirror already it fetches and stores
\* nothing and records "already existed" only; for a bundle fetcher, and for
\* an unstable version the mirror leaves out, it fetches, stores and records
\* nothing.
C35_CacheMirrorStoresAfterCheck ==
    [][\A fout \in {"ok", "FetchError", "crash"}, cout \in LifeCheckOutcomes,
         sout \in {"ok", "fail"}, lout \in {"ok", "symlink_fail"} :
          LfCacheMirror(fout, cout, sout, lout) =>
              IF lf.bundle \/ (lf.skip_unstable /\ ~lf.stable)
              THEN /\ lf'.log = <<>>
                   /\ lf'.stored = lf.stored /\ lf'.archive = lf.archive
                   /\ lf'.added = lf.added /\ lf'.existed = lf.existed
              ELSE IF lf.stored
              THEN /\ lf'.log = <<"already_existed", "symlink">>
                   /\ lf'.existed /\ lf'.added = lf.added
                   /\ lf'.stored /\ lf'.archive = lf.archive
              ELSE /\ lf'.existed = lf.existed
                   /\ Len(lf'.log) >= 1 /\ lf'.log[1] = "fetch"
                   /\ (\E k \in 1..Len(lf'.log) : lf'.log[k] \in {"store", "added"}) =>
                         /\ fout = "ok" /\ cout = "ok"
                         /\ SubSeq(lf'.log, 1, 3) = <<"fetch", "check", "store">>
                   /\ (lf'.added # lf.added \/ lf'.stored) <=>
                         (fout = "ok" /\ cout = "ok" /\ sout = "ok")
                   /\ (lf'.added # lf.added) =>
                         SubSeq(lf'.log, 1, 4) = <<"fetch", "check", "store", "added">>]_vars

\* a cache_mirror() that fetched, checked, stored and recorded "added",
\* after one that stopped at a checksum error and stored nothing
C35_Witness ==
    /\ lf.op = "cache_mirror" /\ lf.res = "ok"
    /\ lf.log = <<"fetch", "check", "store", "added", "symlink">>
    /\ lf.stored /\ lf.added /\ ~lf.existed
    /\ lf.prev.op = "cache_mirror" /\ lf.prev.res = "ChecksumError"

\* C36: on a base Stage fetch(), check(), expand_archive() and restage()
\* never change created, whether they succeed or fail; created becomes true
\* through create() only and false through destroy() only, called directly,
\* by steal_source() or by the scope.
C36_OnlyCreateAndDestroySetCreated ==
    [][/\ lf'.op \in {"fetch", "check", "expand_archive", "restage", "cache_mirror"}
          => lf'.created = lf.created
       /\ (~lf.created /\ lf'.created) =>
             \/ lf'.op = "create"
             \/ lf'.op \in {"__enter__", "steal_source"} /\ lf'.log[1] = "create"
       /\ (lf.created /\ ~lf'.created) =>
             \/ lf'.op = "destroy" /\ lf'.res = "ok"
             \/ /\ lf'.op \in {"__exit__", "steal_source"} /\ lf'.res = "ok"
                /\ lf'.log[Len(lf'.log)] = "destroy"]_vars

\* a restage() that failed after a fetch() that ended in an exception, on a
\* stage that was created and still is
C36_Witness ==
    /\ lf.op = "restage" /\ lf.res = "fail"
    /\ lf.prev.op = "fetch" /\ lf.prev.res = "crash"
    /\ lf.created
(***************************************************************************)
(* Claims about failures inside a scope entry or a scope exit.             *)
(***************************************************************************)
\* C37: when create() fails during the scope entry of a lock-enabled Stage,
\* after the write lock was acquired, the entry gives the acquisition back
\* before the failure leaves it: the Lock object counts as many write
\* acquisitions as before the entry, and a process that did not hold the
\* byte range of the name before does not hold it afterwards.
C37_FailedEntryReleasesLock ==
    [][\A i \in 1..Len(stages) :
          (StageEnter(i) /\ LockEnabled(i) /\ ev'.res = "die") =>
              LET p == stages[i].p
                  l == stages[i].lock
              IN  /\ scopes'[p] = scopes[p]
                  /\ lockObjs'[p][l].writes = lockObjs[p][l].writes
                  /\ fileLock[stages[i].name] # p => fileLock'[stages[i].name] # p]_vars
\* C38: a failed composite entry or exit leaves no other member inside its
\* scope with its write lock: when entering member k fails, the members
\* entered before it have been exited, and when the exit of one member
\* fails, the members that were still to be exited have been exited too.
C38_FailedCompositeLeavesNoLock ==
    (cs.pc = "idle" /\ cs.res \in {"enter_fail", "exit_fail"}) =>
        LET k == cs.log[Len(cs.log)].i
        IN  \A j \in 1..Len(cs.members) : j # k => ~cs.members[j].held
(***************************************************************************)
(* Claims about purge().                                                   *)
(***************************************************************************)
\* C39: a purge() in one process removes neither the directory of a stage
\* nor the lock file while another process is inside the scoped use of that
\* stage with its write lock, and at every moment, after a purge too, at
\* most one process is inside the scoped use of a lock-enabled Stage of one
\* name.
C39_PurgeSparesStagesInUse ==
    /\ [](\A n \in PurgeNames : \A p, q \in Procs :
             InScope(p, n) /\ InScope(q, n) => p = q)
    /\ [][ev'.op = "purge" =>
             \A n \in PurgeNames, q \in Procs :
                 (q # ev'.p /\ InScope(q, n)) =>
                     /\ fs'[n] = fs[n]
                     /\ fileLock'[n] = fileLock[n]]_vars
(***************************************************************************)
(* Claims about the active fetcher after a fetch() that raised.            *)
(***************************************************************************)
\* C40: whenever fetch() ends by raising, whatever a candidate raised, a
\* failure the loop does not recover from included, the active fetcher is
\* the default fetcher; it differs from the default fetcher only after a
\* fetch() that returned.
C40_RaisedFetchRestoresDefault ==
    (fst.op = "fetch" /\ fst.pc = "done") =>
        /\ fst.res # "ok" => fst.fetcher = DefaultFetcher(fst.cfg)
        /\ fst.fetcher # DefaultFetcher(fst.cfg) => fst.res = "ok"

====
